---- MODULE Spec2Model ----
(***************************************************************************)
(* A model of node-shellies-ng:                                            *)
(*   - WebSocketRpcHandler (src/unnamed/part_009), the connection manager, *)
(*     together with JSONRPCClientWithAuthentication (src/src/rpc/auth.ts) *)
(*     and the pending-request table of the JSON-RPC client it extends;    *)
(*   - ComponentBase.update (src/src/components/base.ts).                  *)
(*                                                                         *)
(* JavaScript runs one task at a time.  An action of the model is either   *)
(* one task of the event loop (a socket event, a timer, a frame) with the  *)
(* handlers that run synchronously in it, one synchronous call of the      *)
(* library's user (request, destroy), or the continuation of one `await`   *)
(* (Resume).  Continuations that are ready run before the next task: the   *)
(* tasks are guarded by Quiescent.  User calls may come in between, as     *)
(* they do when two calls are made in a row or from an event listener.     *)
(***************************************************************************)
EXTENDS Integers, Sequences, FiniteSets, TLC

\* ------------------------------------------------------------------ bounds
\* request() is called at most NumReq times
NumReq == 2
\* at most MaxSockets sockets are created, the constructor's included
MaxSockets == 3
\* the device answers 401 only to the first MaxAttempts - 1 attempts of a call
MaxAttempts == 3

\* ----------------------------------------------------------------- options
\* WebSocketRpcHandlerFactory.defaultOptions
RequestTimeout == 10
PingInterval == 60
\* the reconnectInterval lists the model is run with; a number n is the list
\* <<n>> (scheduleConnect() wraps it)
ReconnectOptions == { << >>, <<0>>, <<0, 5>>, <<5, 0>>, <<5, 10>> }

\* the close code of an intentional close, which handleClose() tells from
\* all others; 1006 is the code of a connection that ended without a close
\* frame (a failed or aborted handshake, terminate(), a lost connection)
NormalClosure == 1000
CloseCodes == { NormalClosure, 1006 }

\* the answers of the device to a request frame; a 401 carries a challenge:
\* well-formed, not JSON, another auth_type, another algorithm
Answers == { "result", "error", "401ok", "401json", "401type", "401alg" }
Is401(a) == a \in { "401ok", "401json", "401type", "401alg" }
\* what is remembered of the first response of a call: a 401 with its
\* challenge well-formed or not, to a request with or without an auth block
First(a, withAuth) ==
  CASE a = "401ok" -> IF withAuth THEN "401ok/auth" ELSE "401ok"
    [] Is401(a) /\ a # "401ok" -> IF withAuth THEN "401bad/auth" ELSE "401bad"
    [] OTHER -> "other"

VARIABLES
  password,                \* options.password is set
  reconnectInterval,       \* options.reconnectInterval, as a list
  sockets,                 \* every socket created; this.socket is the last
  timeout,                 \* this.timeout: the timer armed in it
  reconnectIntervalIndex,  \* this.reconnectIntervalIndex
  idToResolveMap,          \* the client's pending-request table (ids)
  id,                      \* the client's id counter
  auth,                    \* this.auth of the client: 0, or the context
  calls,                   \* the request() calls, by id
  waiters,                 \* the awaits in progress, oldest first
  wire,                    \* request frames sent and not yet answered
  destroyed,               \* destroy(): "no", "pending", "done"
  hist,                    \* history of the run, read by the properties only
  comp,                    \* a component: the values of its characteristics
  prev,                    \* comp before the last update()
  data,                    \* the payload of the last update()
  events,                  \* the 'change' events of the last update(), in order
  device,                  \* a device: the characteristics of its switches, by key
  log,                     \* what the last inbound frame caused, in order
  devices,                 \* Shellies.devices: the device stored under each id
  order,                   \* Shellies.devices: its keys, in the order of the Map
  pendingDevices,          \* Shellies.pendingDevices
  ignoredDevices,          \* Shellies.ignoredDevices
  discoveries,             \* the handleDiscoveredDevice() calls at an await, by id
  handlers,                \* the number of RPC handlers created and not destroyed, by id
  created,                 \* the number of Device objects constructed
  last,                    \* what the last call on the collection emitted and returned
  challenge,               \* the authentication challenge of the last 401 response
  secret,                  \* the password the client was constructed with; "" is none
  answer,                  \* what createAuthResponse() returned or threw for it
  obSockets,               \* the sockets devices have opened to the server
  obHandler,               \* the OutboundWebSocketRpcHandler of the device
  obLast                   \* what the last step on the outbound handler caused

rpcVars == << password, reconnectInterval, sockets, timeout, reconnectIntervalIndex,
              idToResolveMap, id, auth, calls, waiters, wire, destroyed, hist >>
compVars == << comp, prev, data, events >>
devVars == << device, log >>
shVars == << devices, order, pendingDevices, ignoredDevices, discoveries, handlers,
            created, last >>
authVars == << challenge, secret, answer >>
obVars == << obSockets, obHandler, obLast >>
vars == << rpcVars, compVars, devVars, shVars, authVars, obVars >>

\* no 'disconnect' event; reconnectIn = -1 stands for null
NoEvent == [ code |-> 0, reconnectIn |-> -1 ]

\* the state of the handler and its client, as one record; hist.disconnect
\* is the 'disconnect' event emitted by the last step
State ==
  [ sockets |-> sockets, timeout |-> timeout,
    reconnectIntervalIndex |-> reconnectIntervalIndex,
    idToResolveMap |-> idToResolveMap, id |-> id, auth |-> auth,
    calls |-> calls, waiters |-> waiters, wire |-> wire,
    destroyed |-> destroyed, hist |-> [ hist EXCEPT !.disconnect = NoEvent ] ]

ApplyRpc(st) ==
  /\ sockets' = st.sockets
  /\ timeout' = st.timeout
  /\ reconnectIntervalIndex' = st.reconnectIntervalIndex
  /\ idToResolveMap' = st.idToResolveMap
  /\ id' = st.id
  /\ auth' = st.auth
  /\ calls' = st.calls
  /\ waiters' = st.waiters
  /\ wire' = st.wire
  /\ destroyed' = st.destroyed
  /\ hist' = st.hist
  /\ UNCHANGED << password, reconnectInterval >>

Apply(st) == ApplyRpc(st) /\ UNCHANGED << compVars, devVars, shVars, authVars, obVars >>

NoTimer == [ kind |-> "none", ms |-> 0 ]
\* no AuthContext; a context is named by the call whose challenge it answers
\* and the socket the challenge came on
NoAuth == [ by |-> 0, sock |-> 0 ]

\* this.socket
cur(st) == Len(st.sockets)
readyState(st) == st.sockets[cur(st)].readyState

\* lastId is the id of the last first attempt sent on the socket (0: none)
NewSocket ==
  [ readyState |-> "CONNECTING", handlers |-> TRUE,
    closeCode |-> 1006, pinged |-> FALSE, lastId |-> 0 ]

\* a closed socket emits nothing more: what it was is forgotten
ClosedSocket ==
  [ readyState |-> "CLOSED", handlers |-> FALSE,
    closeCode |-> 1006, pinged |-> FALSE, lastId |-> 0 ]

\* createSocket(): a new socket with the five handlers registered
createSocket(st) == [ st EXCEPT !.sockets = Append(@, NewSocket) ]

IdleCall ==
  [ stage |-> "idle", attempts |-> 0, reqAuth |-> NoAuth, resp |-> "none",
    timer |-> FALSE, outcome |-> "none", first |-> "none" ]

ReqWho(i) == [ who |-> "req", id |-> i ]
TimerWho == [ who |-> "timer", id |-> 0 ]
DestroyWho == [ who |-> "destroy", id |-> 0 ]

Waiter(w, s, k, r) == [ p |-> w, sock |-> s, kind |-> k, st |-> r ]

NumDisc(st) ==
  Cardinality({ i \in 1..Len(st.waiters) : st.waiters[i].kind = "disc"
                                           /\ st.waiters[i].p.who # "destroy" })

\* a connect() started now can end without exceeding MaxSockets
CanConnect(st) ==
  \/ readyState(st) \in { "CONNECTING", "OPEN" }
  \/ Len(st.sockets) + NumDisc(st) < MaxSockets

\* clearTimeout()
clearTimeout(st) == [ st EXCEPT !.timeout = NoTimer ]

\* ------------------------------------------- values of characteristics
\* A JavaScript value: undefined, null, a number, an array of strings, or an
\* object whose fields hold strings ("null" stands for a null field).
EmptyObj == [ k \in {} |-> "null" ]
Scalar(t, n) == [ t |-> t, n |-> n, a |-> << >>, o |-> EmptyObj ]
Undefined == Scalar("undefined", 0)
Null == Scalar("null", 0)
Num(n) == Scalar("number", n)
Arr(s) == [ t |-> "array", n |-> 0, a |-> s, o |-> EmptyObj ]
Obj(f) == [ t |-> "object", n |-> 0, a |-> << >>, o |-> f ]

\* the characteristics of the component, in the order they are declared:
\* a number, a compound of two fields, a list (Switch.errors)
Characteristics == << "output", "temperature", "errors" >>

\* the state of the component after construction
InitComp ==
  [ output |-> Num(0),
    temperature |-> Obj([ k \in { "tC", "tF" } |-> "null" ]),
    errors |-> Undefined ]

RpcInit(pw) ==
  /\ password = pw
  /\ reconnectInterval \in ReconnectOptions
  /\ sockets = << NewSocket >>
  /\ timeout = NoTimer
  /\ reconnectIntervalIndex = 0
  /\ idToResolveMap = {}
  /\ id = 0
  /\ auth = NoAuth
  /\ calls = [ i \in 1..NumReq |-> IdleCall ]
  /\ waiters = << >>
  /\ wire = {}
  /\ destroyed = "no"
  /\ hist = [ closes |-> 0, idAtDestroy |-> 0, disconnect |-> NoEvent ]

CompInit ==
  /\ comp = InitComp
  /\ prev = InitComp
  /\ data = EmptyObj
  /\ events = << >>

\* String.prototype.toLowerCase and toUpperCase, on the names the model uses
toLowerCase(name) ==
  CASE name = "Sys" -> "sys"
    [] name = "WiFi" -> "wifi"
    [] name = "Switch" -> "switch"
    [] name = "Input" -> "input"
    [] OTHER -> name
toUpperCase(model) ==
  CASE model = "spsw-002xe16eu" -> "SPSW-002XE16EU"
    [] OTHER -> model

\* the key of a Component, name.toLowerCase(), and of a ComponentWithId, to
\* which ':' + id is appended; a key is the tuple of its parts
ComponentKey(name) == << toLowerCase(name) >>
ComponentWithIdKey(name, i) == << toLowerCase(name), i >>

\* Device.components of the device of the model, a Shelly Pro 2 without its
\* inputs: the class of the component under each key
Components ==
  [ k \in { ComponentKey("Sys"), ComponentKey("WiFi"),
            ComponentWithIdKey("Switch", 0), ComponentWithIdKey("Switch", 1) } |->
      CASE k = ComponentKey("Sys") -> "System"
        [] k = ComponentKey("WiFi") -> "WiFi"
        [] OTHER -> "Switch" ]

\* the components whose characteristics the model holds
SwitchKeys == { k \in DOMAIN Components : Components[k] = "Switch" }

DevInit ==
  /\ device = [ k \in SwitchKeys |-> InitComp ]
  /\ log = << >>

\* the ids of the devices that are discovered or added
DeviceIds == { "d1", "d2" }
\* no device; a Device object is its id and the number of its construction
NoDevice == [ id |-> "", n |-> 0 ]
\* no handleDiscoveredDevice() of the id is at an await; those that are, are
\* a list of [ stage, dev ]: the await, "info" or "status", and the device
\* constructed
NoDiscovery == << >>
\* a call on the collection, or the end of an await of handleDiscoveredDevice()
Call(op, deviceId, hostname, info, dev) ==
  [ op |-> op, id |-> deviceId, hostname |-> hostname, info |-> info, device |-> dev ]
\* the request has failed: no info
NoInfo == [ ok |-> FALSE, id |-> "", model |-> "" ]
\* no call yet, nothing emitted, nothing returned, no handler created; noHost
\* counts over the run, up to 2, the discover events of each id that failed
\* for want of a hostname
NoOut ==
  [ call |-> Call("none", "", "", NoInfo, NoDevice),
    events |-> << >>, returned |-> "none", handler |-> FALSE,
    noHost |-> [ i \in DeviceIds |-> 0 ] ]

ShInit ==
  /\ devices = [ i \in DeviceIds |-> NoDevice ]
  /\ order = << >>
  /\ pendingDevices = {}
  /\ ignoredDevices = {}
  /\ discoveries = [ i \in DeviceIds |-> NoDiscovery ]
  /\ handlers = [ i \in DeviceIds |-> 0 ]
  /\ created = 0
  /\ last = NoOut

\* the configurations the model is run with: a password with the default
\* kind of reconnect policy, no password with each of the others
Configs ==
  { [ password |-> pw, reconnectInterval |-> L ] :
      pw \in BOOLEAN, L \in ReconnectOptions } \ 
  ( { [ password |-> TRUE, reconnectInterval |-> L ] : L \in ReconnectOptions \ { <<5, 10>> } }
    \cup { [ password |-> FALSE, reconnectInterval |-> <<5, 10>> ] } )

\* no challenge received, and nothing returned by createAuthResponse()
NoAuthChallenge ==
  [ auth_type |-> "", nonce |-> 0, nc |-> Undefined, realm |-> "", algorithm |-> "" ]
NoAnswer ==
  [ thrown |-> "", realm |-> "", username |-> "", nonce |-> 0, cnonce |-> 0,
    response |-> "", algorithm |-> "" ]
AuthInit == challenge = NoAuthChallenge /\ secret = "" /\ answer = NoAnswer

\* at most MaxObSockets connections come in to the server
MaxObSockets == 3
\* request() of the outbound handler is called at most NumObReq times
NumObReq == 2
ObSocketIds == 1..MaxObSockets
ObCalls == 1..NumObReq
\* a connection that has not come in yet; server: the listeners of
\* handleConnection() are on the socket; listeners: how many times the four
\* listeners of the handler are on it
NoObSocket == [ readyState |-> "NONE", server |-> FALSE, listeners |-> 0 ]
\* no handler yet; one has a socket (0 is null), and its client a table of
\* calls: "none", "pending", or how the call was settled; sentOn is the socket
\* a request was sent on
NoObHandler ==
  [ exists |-> FALSE, socket |-> 0,
    calls |-> [ i \in ObCalls |-> "none" ], sentOn |-> [ i \in ObCalls |-> 0 ] ]
\* a step: what was done, on which socket, with which frame (its id, 0 for a
\* notification), the events emitted, whether the socket was replaced, and
\* the call client.receive() settled (0 if none)
NoObStep ==
  [ op |-> "none", sock |-> 0, id |-> 0, events |-> << >>, replaced |-> FALSE,
    received |-> 0 ]
ObInit ==
  /\ obSockets = [ s \in ObSocketIds |-> NoObSocket ]
  /\ obHandler = NoObHandler
  /\ obLast = NoObStep

Init ==
  /\ \E c \in Configs : RpcInit(c.password) /\ reconnectInterval = c.reconnectInterval
  /\ CompInit
  /\ DevInit
  /\ ShInit
  /\ AuthInit
  /\ ObInit

\* ------------------------------------------------- the client (auth.ts)

\* the promise of call i is settled and its timer cleared (timeoutRequest)
Settle(st, i, out) ==
  [ st EXCEPT !.calls[i].stage = "done", !.calls[i].outcome = out,
              !.calls[i].timer = FALSE, !.calls[i].reqAuth = NoAuth,
              !.calls[i].resp = "none" ]

\* disconnect(): close an open or connecting socket, then wait for 'close'.
\* close() on a connecting socket aborts the handshake, which ends in a
\* 'close' event with the abnormal code.
disconnect(st, w) ==
  LET rs == readyState(st)
      st1 == IF rs \in { "OPEN", "CONNECTING" }
             THEN [ st EXCEPT !.sockets[cur(st)].readyState = "CLOSING",
                              !.sockets[cur(st)].closeCode =
                                 IF rs = "OPEN" THEN NormalClosure ELSE 1006 ]
             ELSE st
  IN [ st1 EXCEPT !.waiters =
         Append(@, Waiter(w, cur(st), "disc", IF rs = "CLOSED" THEN "ok" ELSE "wait")) ]

\* awaitConnect(): wait for 'open' or 'close' of this.socket
awaitConnect(st, w) ==
  [ st EXCEPT !.waiters = Append(@, Waiter(w, cur(st), "conn", "wait")) ]

\* connect(), up to its first await
connect(st, w) ==
  CASE readyState(st) \in { "CLOSED", "CLOSING" } -> disconnect(st, w)
    [] readyState(st) = "CONNECTING" -> awaitConnect(st, w)
    [] OTHER -> IF w.who = "req"
                THEN [ st EXCEPT !.waiters = Append(@, Waiter(w, cur(st), "ret", "ok")) ]
                ELSE st

\* createAuthResponse(): throws unless the challenge is digest / SHA-256
createAuthResponse(a) == a = "401ok"

\* requestWithAuthentication(), up to the await of the response: the request
\* takes this.auth, is registered in the table and handed to handleRequest
requestWithAuthentication(st, i) ==
  connect([ st EXCEPT !.calls[i].stage = "send",
                      !.calls[i].attempts = @ + 1,
                      !.calls[i].reqAuth = st.auth,
                      !.calls[i].resp = "none",
                      !.idToResolveMap = @ \cup { i } ],
          ReqWho(i))

\* Deliver without the check that a password is configured
DeliverPasswordless(st, i, a, s) ==
  IF Is401(a)
  THEN IF st.calls[i].reqAuth # NoAuth THEN Settle(st, i, "Invalid password")
       ELSE LET st1 == IF createAuthResponse(a)
                       THEN [ st EXCEPT !.auth = [ by |-> i, sock |-> s ] ]
                       ELSE st
            IN requestWithAuthentication(st1, i)
  ELSE Settle(st, i, a)

\* Deliver without the check that the request carried an auth block
DeliverUnchecked(st, i, a, s) ==
  IF Is401(a)
  THEN IF ~password THEN Settle(st, i, "Unauthorized")
       ELSE LET st1 == IF createAuthResponse(a)
                       THEN [ st EXCEPT !.auth = [ by |-> i, sock |-> s ] ]
                       ELSE st
            IN connect([ st1 EXCEPT !.calls[i].stage = "send",
                                    !.calls[i].attempts = @ + 1,
                                    !.calls[i].reqAuth = st1.auth,
                                    !.calls[i].resp = "none",
                                    !.idToResolveMap = @ \cup { i } ],
                       ReqWho(i))
  ELSE Settle(st, i, a)

\* requestWithAuthentication(), from the response on; s is the socket the
\* response came on
Deliver(st, i, a, s) ==
  IF Is401(a)
  THEN IF ~password THEN Settle(st, i, "Unauthorized")
       ELSE IF st.calls[i].reqAuth # NoAuth THEN Settle(st, i, "Invalid password")
       ELSE LET st1 == IF createAuthResponse(a)
                       THEN [ st EXCEPT !.auth = [ by |-> i, sock |-> s ] ]
                       ELSE st   \* the catch block builds an Error and drops it
            IN requestWithAuthentication(st1, i)
  ELSE Settle(st, i, a)

\* JSONRPCClient.receive(): resolve the pending request with that id, if any
receive(st, i, a, s) ==
  IF i \in st.idToResolveMap
  THEN LET st1 == [ st EXCEPT !.idToResolveMap = @ \ { i },
                              !.calls[i].first =
                                 IF @ = "none" THEN First(a, st.calls[i].reqAuth # NoAuth)
                                 ELSE @ ]
       IN IF st.calls[i].stage = "sent"
          THEN Deliver(st1, i, a, s)
          ELSE [ st1 EXCEPT !.calls[i].resp = a ]
  ELSE st

\* the send function of the client has failed: the client resolves the
\* request with an error response and returns the response promise
SendFailed(st, i, a) ==
  LET st1 == [ st EXCEPT !.calls[i].stage = "sent" ]
  IN IF i \in st.idToResolveMap
     THEN receive(st1, i, a, 0)
     ELSE Deliver(st1, i, st.calls[i].resp, 0)

\* options.clientId
ClientId == "node-shellies-ng"

\* the delay_ms argument of the reboot() that makes request i: the user calls
\* reboot(500), then reboot()
Delay(i) == IF i = 1 THEN Num(500) ELSE Undefined

\* Service.rpc(method, params): the method is prefixed with the service name
rpc(name, method, params) == [ method |-> << name, method >>, params |-> params ]

\* ShellyService.reboot(delay_ms)
reboot(delay_ms) == rpc("Shelly", "Reboot", [ delay_ms |-> delay_ms ])

\* JSON.stringify of an object: a key whose value is undefined is left out
stringify(o) == [ k \in { k \in DOMAIN o : o[k] # Undefined } |-> o[k] ]

\* sendRequest(): { src: clientId, ...payload } goes out, serialised, on
\* this.socket if it is open; send() throws if it is not
sendRequest(st, i) ==
  IF readyState(st) = "OPEN"
  THEN LET f == [ sock |-> cur(st), id |-> i, auth |-> st.calls[i].reqAuth,
                  attempt |-> st.calls[i].attempts,
                  src |-> ClientId, method |-> reboot(Delay(i)).method,
                  params |-> stringify(reboot(Delay(i)).params) ]
           st1 == [ st EXCEPT !.wire = @ \cup { f },
                              !.sockets[cur(st)].lastId =
                                 IF f.attempt = 1 THEN i ELSE @,
                              !.calls[i].stage = "sent" ]
       IN IF st.calls[i].resp # "none"
          THEN Deliver(st1, i, st.calls[i].resp, 0)
          ELSE st1
  ELSE SendFailed(st, i, "senderr")

\* request(): a new id, a timer of requestTimeout, the first attempt
request(st) ==
  LET i == st.id + 1
  IN requestWithAuthentication(
       [ st EXCEPT !.id = i, !.calls[i].timer = TRUE ], i)

\* requestTimeout that resolves every pending request
requestTimeoutAll(st, i) ==
  LET st1 == receive([ st EXCEPT !.calls[i].timer = FALSE ], i, "timeout", 0)
      j == CHOOSE j \in 1..NumReq : j # i
  IN receive(st1, j, "timeout", 0)

\* requestTimeout that resolves the request and keeps its table entry
requestTimeoutKeepsEntry(st, i) ==
  [ receive([ st EXCEPT !.calls[i].timer = FALSE ], i, "timeout", 0)
      EXCEPT !.idToResolveMap = st.idToResolveMap ]

\* the timer of call i expires: its id is looked up in the table
requestTimeout(st, i) ==
  receive([ st EXCEPT !.calls[i].timer = FALSE ], i, "timeout", 0)

\* rejectAllPendingRequests that passes over the requests not yet sent
rejectAllSent(st) ==
  [ st EXCEPT !.idToResolveMap = { i \in @ : st.calls[i].stage # "sent" },
              !.calls = [ i \in 1..NumReq |->
                 IF i \in st.idToResolveMap /\ st.calls[i].stage = "sent"
                 THEN [ st.calls[i] EXCEPT !.stage = "done", !.timer = FALSE,
                                           !.outcome = "closed", !.reqAuth = NoAuth,
                                           !.first = IF @ = "none" THEN "other" ELSE @ ]
                 ELSE st.calls[i] ] ]

\* rejectAllPendingRequests('Connection closed')
rejectAllPendingRequests(st) ==
  [ st EXCEPT !.idToResolveMap = {},
              !.calls = [ i \in 1..NumReq |->
                 IF i \notin st.idToResolveMap THEN st.calls[i]
                 ELSE IF st.calls[i].stage = "sent"
                      THEN [ st.calls[i] EXCEPT !.stage = "done", !.timer = FALSE,
                                                !.outcome = "closed", !.reqAuth = NoAuth,
                                                !.first = IF @ = "none" THEN "other" ELSE @ ]
                      ELSE [ st.calls[i] EXCEPT !.resp = "closed",
                                                !.first = IF @ = "none" THEN "other" ELSE @ ] ] ]

\* ------------------------------------------ the handler (part_009)

\* destroy()
destroy(st) ==
  disconnect(rejectAllPendingRequests(clearTimeout(
               [ st EXCEPT !.destroyed = "pending", !.hist.idAtDestroy = st.id ])),
             DestroyWho)

\* what scheduleConnect() returns: the delay in ms, or null (-1)
scheduledIn(st) ==
  IF Len(reconnectInterval) = 0 THEN -1
  ELSE LET interval == reconnectInterval[st.reconnectIntervalIndex + 1] * 1000
       IN IF interval <= 0 THEN -1 ELSE interval

\* scheduleConnect() that does not look for a non-positive interval
scheduleConnectAny(st) ==
  IF Len(reconnectInterval) = 0 THEN st
  ELSE [ st EXCEPT !.timeout =
           [ kind |-> "reconnect",
             ms |-> reconnectInterval[st.reconnectIntervalIndex + 1] * 1000 ] ]

\* scheduleConnect()
scheduleConnect(st) ==
  IF Len(reconnectInterval) = 0 THEN st
  ELSE LET interval == reconnectInterval[st.reconnectIntervalIndex + 1] * 1000
       IN IF interval <= 0 THEN st
          ELSE [ st EXCEPT !.timeout = [ kind |-> "reconnect", ms |-> interval ] ]

\* the callback of the timer scheduleConnect() arms
reconnectTimer(st) ==
  connect([ st EXCEPT !.timeout = NoTimer,
                      !.reconnectIntervalIndex =
                         IF @ < Len(reconnectInterval) - 1 THEN @ + 1 ELSE @ ],
          TimerWho)

\* handleOpen()
handleOpen(st) ==
  [ st EXCEPT !.reconnectIntervalIndex = 0,
              !.timeout = IF PingInterval > 0
                          THEN [ kind |-> "ping", ms |-> PingInterval * 1000 ]
                          ELSE NoTimer ]

\* handleClose(code): the handlers are taken off this.socket
handleClose(st, code) ==
  LET st1 == [ clearTimeout(st) EXCEPT !.sockets[cur(st)].handlers = FALSE ]
      st2 == IF code # NormalClosure THEN scheduleConnect(st1) ELSE st1
      reconnectIn == IF code # NormalClosure THEN scheduledIn(st1) ELSE -1
  IN [ st2 EXCEPT !.hist.disconnect = [ code |-> code, reconnectIn |-> reconnectIn ] ]

\* sendPing()
sendPing(st) ==
  IF PingInterval <= 0 \/ readyState(st) # "OPEN" THEN [ st EXCEPT !.timeout = NoTimer ]
  ELSE [ st EXCEPT !.sockets[cur(st)].pinged = TRUE,
                   !.timeout = [ kind |-> "pong", ms |-> RequestTimeout * 1000 ] ]

\* the callback of the timer sendPing() arms: this.socket.terminate()
pongTimer(st) ==
  [ st EXCEPT !.timeout = NoTimer,
              !.sockets[cur(st)].readyState =
                 IF @ \in { "OPEN", "CONNECTING" } THEN "CLOSING" ELSE @,
              !.sockets[cur(st)].closeCode =
                 IF readyState(st) \in { "OPEN", "CONNECTING" } THEN 1006 ELSE @ ]

\* handlePong()
handlePong(st) ==
  [ st EXCEPT !.timeout = IF PingInterval > 0
                          THEN [ kind |-> "ping", ms |-> PingInterval * 1000 ]
                          ELSE NoTimer ]

\* the if-chain of handleMessage(): where frame d goes; id = 0 is a frame
\* without id (both are falsy), method = "" one without method
Route(d) ==
  IF d.id # 0 THEN "receive"
  ELSE IF d.method \in { "NotifyStatus", "NotifyFullStatus" } THEN "statusUpdate"
  ELSE IF d.method = "NotifyEvent" THEN "event"
  ELSE "none"

\* handleMessage(), for a response frame: client.receive(d)
handleMessage(st, i, a, s) ==
  IF Route([ id |-> i, method |-> "" ]) = "receive" THEN receive(st, i, a, s) ELSE st

\* the waiters of socket s whose status is "wait" get status f[kind]
Wake(ws, s, f) ==
  [ k \in 1..Len(ws) |->
      IF ws[k].sock = s /\ ws[k].st = "wait" /\ ws[k].kind \in DOMAIN f
      THEN [ ws[k] EXCEPT !.st = f[ws[k].kind] ]
      ELSE ws[k] ]

\* 'open' on socket s: handleOpen if registered, then the awaitConnect listeners
OpenEvent(st, s) ==
  LET st1 == [ st EXCEPT !.sockets[s].readyState = "OPEN", !.hist.closes = 0 ]
      st2 == IF st.sockets[s].handlers THEN handleOpen(st1) ELSE st1
  IN [ st2 EXCEPT !.waiters = Wake(@, s, [ conn |-> "ok" ]) ]

\* 'close' on socket s: handleClose if registered, then the listeners of
\* awaitConnect and awaitDisconnect; the frames sent on s stay unanswered
CloseEvent(st, s) ==
  LET code == st.sockets[s].closeCode
      st1 == [ st EXCEPT !.sockets[s].readyState = "CLOSED",
                         !.wire = { f \in @ : f.sock # s },
                         !.hist.closes = IF code # NormalClosure THEN @ + 1 ELSE @ ]
      st2 == IF st.sockets[s].handlers THEN handleClose(st1, code) ELSE st1
  IN [ st2 EXCEPT !.sockets[s] = ClosedSocket,
                  !.waiters = Wake(@, s, [ conn |-> "fail", disc |-> "ok" ]) ]

RemoveAt(ws, k) == [ j \in 1..(Len(ws) - 1) |-> IF j < k THEN ws[j] ELSE ws[j + 1] ]

\* the continuation of the await of waiter k
Continue(st, k) ==
  LET w == st.waiters[k]
      st1 == [ st EXCEPT !.waiters = RemoveAt(@, k) ]
  IN CASE w.kind = "disc" /\ w.p.who = "destroy" -> [ st1 EXCEPT !.destroyed = "done" ]
       [] w.kind = "disc" /\ w.p.who # "destroy" -> awaitConnect(createSocket(st1), w.p)
       [] w.kind = "conn" /\ w.p.who # "req" -> st1
       [] w.kind = "conn" /\ w.p.who = "req" /\ w.st = "fail" -> SendFailed(st1, w.p.id, "connecterr")
       [] OTHER -> sendRequest(st1, w.p.id)

Ready(st) == { k \in 1..Len(st.waiters) : st.waiters[k].st # "wait" }
Quiescent == Ready(State) = {}

\* ----------------------------------------------------------------- actions

Request ==
  /\ id < NumReq
  /\ CanConnect(State)
  /\ Apply(request(State))

Destroy ==
  /\ destroyed = "no"
  /\ Apply(destroy(State))

Resume ==
  /\ ~Quiescent
  /\ LET k == CHOOSE k \in Ready(State) : \A j \in Ready(State) : k <= j
     IN Apply(Continue(State, k))

SocketOpen ==
  /\ Quiescent
  /\ \E s \in 1..Len(sockets) :
       /\ sockets[s].readyState = "CONNECTING"
       /\ Apply(OpenEvent(State, s))

\* the connection attempt fails, or a closing socket is closed
SocketClose ==
  /\ Quiescent
  /\ \E s \in 1..Len(sockets) :
       /\ sockets[s].readyState \in { "CONNECTING", "CLOSING" }
       /\ Apply(CloseEvent(State, s))

\* the peer or the network ends an open connection
PeerClose ==
  /\ Quiescent
  /\ \E s \in 1..Len(sockets), code \in CloseCodes :
       /\ sockets[s].readyState = "OPEN"
       /\ Apply([ State EXCEPT !.sockets[s].readyState = "CLOSING",
                               !.sockets[s].closeCode = code ])

ReconnectTimer ==
  /\ Quiescent
  /\ timeout.kind = "reconnect"
  /\ CanConnect(State)
  /\ Apply(reconnectTimer(State))

PingTimer ==
  /\ Quiescent
  /\ timeout.kind = "ping"
  /\ Apply(sendPing(State))

PongTimer ==
  /\ Quiescent
  /\ timeout.kind = "pong"
  /\ Apply(pongTimer(State))

Pong ==
  /\ Quiescent
  /\ \E s \in 1..Len(sockets) :
       /\ sockets[s].readyState = "OPEN"
       /\ sockets[s].pinged
       /\ LET st1 == [ State EXCEPT !.sockets[s].pinged = FALSE ]
          IN Apply(IF sockets[s].handlers THEN handlePong(st1) ELSE st1)

\* a response frame arrives on the socket its request was sent on
Message ==
  /\ Quiescent
  /\ \E f \in wire, a \in Answers :
       /\ sockets[f.sock].readyState = "OPEN"
       /\ sockets[f.sock].handlers
       /\ Is401(a) => f.attempt < MaxAttempts
       /\ Is401(a) /\ password /\ f.auth = NoAuth => CanConnect(State)
       /\ Apply(handleMessage([ State EXCEPT !.wire = @ \ { f } ], f.id, a, f.sock))

RequestTimer ==
  /\ Quiescent
  /\ \E i \in 1..NumReq :
       /\ calls[i].timer
       /\ Apply(requestTimeout(State, i))

Next ==
  \/ Request
  \/ Destroy
  \/ Resume
  \/ SocketOpen
  \/ SocketClose
  \/ PeerClose
  \/ ReconnectTimer
  \/ PingTimer
  \/ PongTimer
  \/ Pong
  \/ Message
  \/ RequestTimer

Spec == Init /\ [][Next]_vars

\* ------------------------------------------------ ComponentBase.update()

\* the lists of a payload hold at most MaxLen elements
MaxLen == 2
\* the error names a device reports, in the order it reports them
ErrorNames == << "e1", "e2" >>

\* the names at the positions S of ErrorNames, in order
RECURSIVE Sublist(_)
Sublist(S) ==
  IF S = {} THEN << >>
  ELSE LET k == CHOOSE k \in S : \A j \in S : k <= j
       IN << ErrorNames[k] >> \o Sublist(S \ { k })

ErrorLists ==
  { Sublist(S) : S \in { T \in SUBSET (1..Len(ErrorNames)) : Cardinality(T) <= MaxLen } }
FieldVals == { "null", "x" }
Fields == { "tC", "tF" }

\* a key of the payload that is left out
Absent == Scalar("absent", 0)

\* the values a payload gives to each key; "id" is no characteristic
OutputVals == { Num(0), Num(1) }
TemperatureVals ==
  { Obj(f) : f \in UNION { [ D -> FieldVals ] : D \in SUBSET Fields } } \cup { Null }
ErrorsVals == { Arr(q) : q \in ErrorLists } \cup { Null }

MkData(o, t, e) ==
  LET all == [ output |-> o, temperature |-> t, errors |-> e, id |-> Num(0) ]
  IN [ k \in { k \in DOMAIN all : all[k] # Absent } |-> all[k] ]

Payloads ==
  { MkData(o, t, e) : o \in OutputVals \cup { Absent },
                      t \in TemperatureVals \cup { Absent },
                      e \in ErrorsVals \cup { Absent } }

\* typeof v === 'object'
TypeofObject(v) == v.t \in { "null", "array", "object" }

\* v is truthy
Truthy(v) == v.t \in { "array", "object" } \/ (v.t = "number" /\ v.n # 0)

\* fast-deep-equal
equal(x, y) ==
  CASE x.t = "array" /\ y.t = "array" ->
         /\ Len(x.a) = Len(y.a)
         /\ \A k \in 1..Len(x.a) : x.a[k] = y.a[k]
    [] x.t = "object" /\ y.t = "object" ->
         /\ Cardinality(DOMAIN x.o) = Cardinality(DOMAIN y.o)
         /\ \A k \in DOMAIN x.o : k \in DOMAIN y.o /\ x.o[k] = y.o[k]
    [] OTHER -> x.t = y.t /\ x.n = y.n /\ x.t \notin { "array", "object" }

\* v === x for a value v of the payload and a stored value x: an array or an
\* object of the payload is no stored one
StrictEqual(v, x) == v.t \notin { "array", "object" } /\ v.t = x.t /\ v.n = x.n

\* Object.assign that puts source in the place of target
assignReplace(target, source) == source

\* Object.assign(target, source): the own properties of source are copied
\* onto target; null has none, and a number as target is left as it is.
\* (Payloads pairs arrays with arrays and objects with objects only.)
assign(target, source) ==
  CASE target.t = "object" /\ source.t = "object" ->
         Obj([ k \in DOMAIN target.o \cup DOMAIN source.o |->
                 IF k \in DOMAIN source.o THEN source.o[k] ELSE target.o[k] ])
    [] target.t = "array" /\ source.t = "array" ->
         Arr([ k \in 1..(IF Len(source.a) > Len(target.a) THEN Len(source.a)
                                                          ELSE Len(target.a)) |->
                 IF k <= Len(source.a) THEN source.a[k] ELSE target.a[k] ])
    [] OTHER -> target

\* the body of the loop of update() for characteristic c
updateOne(r, d, c) ==
  IF c \notin DOMAIN d THEN r
  ELSE IF TypeofObject(d[c]) /\ Truthy(r.comp[c])
       THEN IF equal(d[c], r.comp[c]) THEN r
            ELSE [ comp |-> [ r.comp EXCEPT ![c] = assign(@, d[c]) ],
                   changed |-> Append(r.changed, c) ]
       ELSE IF StrictEqual(d[c], r.comp[c]) THEN r
            ELSE [ comp |-> [ r.comp EXCEPT ![c] = d[c] ],
                   changed |-> Append(r.changed, c) ]

RECURSIVE updateFrom(_, _, _)
updateFrom(r, d, k) ==
  IF k > Len(Characteristics) THEN r
  ELSE updateFrom(updateOne(r, d, Characteristics[k]), d, k + 1)

\* update() that also stores the keys of the payload that are not declared
updateAllKeys(c0, d) ==
  LET r == updateFrom([ comp |-> c0, changed |-> << >> ], d, 1)
  IN [ comp |-> [ k \in DOMAIN r.comp \cup DOMAIN d |->
                    IF k \in DOMAIN r.comp THEN r.comp[k] ELSE d[k] ],
       changed |-> r.changed ]

\* update(data): the new values and the characteristics that changed, in order
update(c0, d) == updateFrom([ comp |-> c0, changed |-> << >> ], d, 1)

\* the second loop of update() with the changed characteristics taken last first
emitReversed(r) ==
  [ k \in 1..Len(r.changed) |->
      LET c == r.changed[Len(r.changed) + 1 - k]
      IN [ c |-> c, value |-> r.comp[c], seen |-> r.comp ] ]

\* the second loop of update(): for each changed characteristic, in the order
\* they were added to the set, 'change' with the name and this[c] (and then
\* 'change:' + c with this[c]); seen is the component as a listener finds it
emit(r) ==
  [ k \in 1..Len(r.changed) |->
      LET c == r.changed[k]
      IN [ c |-> c, value |-> r.comp[c], seen |-> r.comp ] ]

Update ==
  /\ \E d \in Payloads :
       LET r == update(comp, d)
       IN /\ comp' = r.comp
          /\ prev' = comp
          /\ data' = d
          /\ events' = emit(r)
  /\ UNCHANGED << rpcVars, devVars, shVars, authVars, obVars >>

InitUpdate ==
  RpcInit(FALSE) /\ reconnectInterval = << >> /\ CompInit /\ DevInit /\ ShInit
  /\ AuthInit /\ ObInit
NextUpdate == Update
SpecUpdate == InitUpdate /\ [][NextUpdate]_vars

\* ------------------------------- inbound frames and the device (devices/base.ts)

\* an event notification holds at most MaxBatch events
MaxBatch == 2

\* values of the fields of an event
Bool(b) == Scalar("boolean", IF b THEN 1 ELSE 0)
Str == Scalar("string", 0)

\* an entry of the log: a call or an emitted event, on the component (or the
\* handler) under key, with its arguments
Entry(kind, key, name, args) ==
  [ kind |-> kind, key |-> key, name |-> name, args |-> args ]

TsKey == << "ts" >>
EventsKey == << "events" >>
HandlerKey == << "rpcHandler" >>
Switch0 == ComponentWithIdKey("Switch", 0)
Switch1 == ComponentWithIdKey("Switch", 1)
\* the key of a component the device does not have
UnknownKey == ComponentWithIdKey("Input", 9)

\* an RpcEvent of component c: 'config_changed' carries cfg_rev and
\* restart_required, 'ota_begin' a message, 'sta_connect_fail' a reason
Event(c, name) ==
  [ component |-> c, event |-> name,
    cfg_rev |-> IF name = "config_changed" THEN Num(3) ELSE Undefined,
    restart_required |-> IF name = "config_changed" THEN Bool(c = ComponentKey("Sys"))
                         ELSE Undefined,
    msg |-> IF name = "ota_begin" THEN Str ELSE Undefined,
    progress_percent |-> Undefined,
    reason |-> IF name = "sta_connect_fail" THEN Num(2) ELSE Undefined,
    ssid |-> Undefined, sta_ip |-> Undefined ]

\* the events a device sends: each class with 'config_changed', System and
\* WiFi with an event of their own, Switch with one it does not know, and one
\* event of a component the device does not have
RpcEvents ==
  { Event(ComponentKey("Sys"), "config_changed"), Event(ComponentKey("Sys"), "ota_begin"),
    Event(ComponentKey("WiFi"), "config_changed"), Event(ComponentKey("WiFi"), "sta_connect_fail"),
    Event(Switch0, "config_changed"), Event(Switch0, "ota_begin"),
    Event(UnknownKey, "config_changed") }

Batches == UNION { [ 1..n -> RpcEvents ] : n \in 0..MaxBatch }

\* the params of a NotifyEvent: { ts, events }
EventParams(batch) ==
  [ k \in { TsKey, EventsKey } |->
      IF k = TsKey THEN Num(100)
      ELSE [ t |-> "array", n |-> 0, a |-> batch, o |-> EmptyObj ] ]

\* the keys of a status notification, in the order the device writes them
StatusKeyOrder == << TsKey, Switch0, Switch1, UnknownKey >>

\* what a status notification says of a switch; Num(1) is output: true
SwitchStatus == { [ output |-> Num(1) ], [ output |-> Num(0) ] }

MkStatus(ts, a, b, u) ==
  LET all == [ k \in { TsKey, Switch0, Switch1, UnknownKey } |->
                 CASE k = TsKey -> ts [] k = Switch0 -> a [] k = Switch1 -> b [] OTHER -> u ]
  IN [ k \in { k \in DOMAIN all : all[k] # Absent } |-> all[k] ]

\* the params of a NotifyStatus or NotifyFullStatus
StatusParams ==
  { MkStatus(ts, a, b, u) :
      ts \in { Num(100), Absent },
      a \in { Obj(d) : d \in SwitchStatus } \cup { Absent },
      b \in { Obj(d) : d \in SwitchStatus } \cup { Absent },
      u \in { Obj([ output |-> Num(1) ]), Absent } }

\* the frames a device sends: notifications, frames with another method, and
\* frames with an id, with or without the method of a notification
Frames ==
  { [ id |-> i, method |-> m, params |-> p ] :
      i \in { 0, 1 }, m \in { "NotifyStatus", "NotifyFullStatus" }, p \in StatusParams }
  \cup { [ id |-> i, method |-> "NotifyEvent", params |-> EventParams(b) ] :
           i \in { 0, 1 }, b \in Batches }
  \cup { [ id |-> 0, method |-> "Shelly.Other", params |-> p ] :
           p \in StatusParams \cup { EventParams(b) : b \in Batches } }
  \cup { [ id |-> i, method |-> "", params |-> EmptyObj ] : i \in { 0, 1 } }

\* Device.hasComponent(key)
hasComponent(key) == key \in DOMAIN Components

\* the 'change' events of an update() of the component under key
Changes(key, evs) ==
  [ k \in 1..Len(evs) |-> Entry("change", key, evs[k].c, << evs[k].value >>) ]

\* the body of the loop of statusUpdateHandler() for key cmpnt
statusUpdateOne(r, upd, cmpnt) ==
  IF cmpnt # TsKey /\ TypeofObject(upd[cmpnt]) /\ hasComponent(cmpnt)
  THEN LET u == update(r.device[cmpnt], upd[cmpnt].o)
       IN [ device |-> [ r.device EXCEPT ![cmpnt] = u.comp ],
            log |-> r.log \o << Entry("update", cmpnt, "", << upd[cmpnt].o >>) >>
                          \o Changes(cmpnt, emit(u)) ]
  ELSE r

RECURSIVE statusUpdateFrom(_, _, _)
statusUpdateFrom(r, upd, k) ==
  IF k > Len(StatusKeyOrder) THEN r
  ELSE statusUpdateFrom(
         IF StatusKeyOrder[k] \in DOMAIN upd
         THEN statusUpdateOne(r, upd, StatusKeyOrder[k]) ELSE r,
         upd, k + 1)

\* statusUpdateHandler() that updates the first switch with the sub-object of
\* the second as well
statusUpdateHandlerBoth(r, upd) ==
  statusUpdateFrom(r, IF Switch1 \in DOMAIN upd /\ Switch0 \notin DOMAIN upd
                      THEN upd @@ (Switch0 :> upd[Switch1]) ELSE upd, 1)

\* Device.statusUpdateHandler(update)
statusUpdateHandler(r, upd) == statusUpdateFrom(r, upd, 1)

\* ComponentBase.handleEvent(event)
ComponentBaseHandleEvent(key, e) ==
  IF e.event = "config_changed"
  THEN << Entry("emit", key, "configChange", << e.cfg_rev, e.restart_required >>) >>
  ELSE << >>

\* System.handleEvent() without the default branch
SystemHandleEventOwn(key, e) ==
  CASE e.event = "ota_begin" -> << Entry("emit", key, "otaBegin", << e.msg >>) >>
    [] OTHER -> << >>

\* System.handleEvent(event)
SystemHandleEvent(key, e) ==
  CASE e.event = "ota_begin" -> << Entry("emit", key, "otaBegin", << e.msg >>) >>
    [] e.event = "ota_progress" ->
         << Entry("emit", key, "otaProgress", << e.progress_percent, e.msg >>) >>
    [] e.event = "ota_success" -> << Entry("emit", key, "otaSuccess", << e.msg >>) >>
    [] e.event = "ota_error" -> << Entry("emit", key, "otaError", << e.msg >>) >>
    [] e.event = "sleep" -> << Entry("emit", key, "sleep", << >>) >>
    [] OTHER -> ComponentBaseHandleEvent(key, e)

\* WiFi.handleEvent(event)
WiFiHandleEvent(key, e) ==
  CASE e.event = "sta_connect_fail" ->
         << Entry("emit", key, "connectionError", << e.reason >>) >>
    [] e.event = "sta_disconnected" ->
         << Entry("emit", key, "disconnect", << e.reason, e.ssid, e.sta_ip >>) >>
    [] OTHER -> ComponentBaseHandleEvent(key, e)

\* handleEvent() of the component under key, by its class
handleEvent(key, e) ==
  CASE Components[key] = "System" -> SystemHandleEvent(key, e)
    [] Components[key] = "WiFi" -> WiFiHandleEvent(key, e)
    [] OTHER -> ComponentBaseHandleEvent(key, e)

RECURSIVE eventHandlerFrom(_, _, _)
eventHandlerFrom(lg, batch, k) ==
  IF k > Len(batch) THEN lg
  ELSE LET e == batch[k]
       IN eventHandlerFrom(
            IF hasComponent(e.component)
            THEN lg \o << Entry("handleEvent", e.component, e.event, << e >>) >>
                    \o handleEvent(e.component, e)
            ELSE lg,
            batch, k + 1)

\* the loop of eventHandler() that ends at an event of no component
RECURSIVE eventHandlerUntilUnknown(_, _, _)
eventHandlerUntilUnknown(lg, batch, k) ==
  IF k > Len(batch) \/ ~hasComponent(batch[k].component) THEN lg
  ELSE eventHandlerUntilUnknown(
         lg \o << Entry("handleEvent", batch[k].component, batch[k].event, << batch[k] >>) >>
            \o handleEvent(batch[k].component, batch[k]),
         batch, k + 1)

\* eventHandler() that stops at the first event of no component
eventHandlerStops(r, notification) ==
  [ r EXCEPT !.log = eventHandlerUntilUnknown(@, notification[EventsKey].a, 1) ]

\* Device.eventHandler(events)
eventHandler(r, notification) ==
  [ r EXCEPT !.log = eventHandlerFrom(@, notification[EventsKey].a, 1) ]

\* what handleMessage() and the listeners of the device do with frame d: the
\* log starts with the frame
dispatch(dev, d) ==
  LET r0 == [ device |-> dev,
              log |-> << Entry("frame", << >>, d.method, << Num(d.id), d.params >>) >> ]
  IN CASE Route(d) = "receive" ->
            [ r0 EXCEPT !.log = Append(@, Entry("receive", HandlerKey, "", << Num(d.id) >>)) ]
       [] Route(d) = "statusUpdate" ->
            statusUpdateHandler(
              [ r0 EXCEPT !.log = Append(@, Entry("emit", HandlerKey, "statusUpdate", << d.params >>)) ],
              d.params)
       [] Route(d) = "event" ->
            eventHandler(
              [ r0 EXCEPT !.log = Append(@, Entry("emit", HandlerKey, "event", << d.params >>)) ],
              d.params)
       [] OTHER -> r0

\* a frame arrives on the open socket
Frame ==
  /\ Quiescent
  /\ readyState(State) = "OPEN" /\ sockets[cur(State)].handlers
  /\ \E d \in Frames :
       LET r == dispatch(device, d)
       IN /\ ApplyRpc(IF Route(d) = "receive"
                      THEN handleMessage(State, d.id, "result", cur(State))
                      ELSE State)
          /\ device' = r.device
          /\ log' = r.log
  /\ UNCHANGED << compVars, shVars, authVars, obVars >>

InitDevice ==
  RpcInit(FALSE) /\ reconnectInterval = << >> /\ CompInit /\ DevInit /\ ShInit
  /\ AuthInit /\ ObInit
NextDevice ==
  \/ SocketOpen
  \/ Frame
SpecDevice == InitDevice /\ [][NextDevice]_vars

\* ------------------------------------------- the collection (part_016)

\* at most MaxDevices Device objects are constructed
MaxDevices == 3
\* at most MaxRuns handleDiscoveredDevice() of one id are at an await
MaxRuns == 2
\* at most MaxHandlers RPC handlers are created for one id
MaxHandlers == 2

\* options.deviceOptions: the second device is excluded from discovery
DeviceOptionsMap == [ i \in { "d2" } |-> [ exclude |-> TRUE ] ]

\* the models devices report: that of the Shelly Pro 2, in upper and in lower
\* case, and one no class is registered for
Models == { "SPSW-002XE16EU", "spsw-002xe16eu", "SHSW-25" }
\* Device.subclasses, after Device.registerClass(ShellyPro2)
subclasses == { toUpperCase("SPSW-002XE16EU") }

\* the hostname of a discover event; "" is none
Hostnames == { "", "192.168.33.1" }

\* the state of the collection as one record; what was emitted and returned
\* is of the last call
ShState ==
  [ devices |-> devices, order |-> order, pendingDevices |-> pendingDevices,
    ignoredDevices |-> ignoredDevices, discoveries |-> discoveries,
    handlers |-> handlers, created |-> created,
    last |-> [ last EXCEPT !.events = << >>, !.returned = "none", !.handler = FALSE ] ]

ApplySh(sh) ==
  /\ devices' = sh.devices
  /\ order' = sh.order
  /\ pendingDevices' = sh.pendingDevices
  /\ ignoredDevices' = sh.ignoredDevices
  /\ discoveries' = sh.discoveries
  /\ handlers' = sh.handlers
  /\ created' = sh.created
  /\ last' = sh.last
  /\ UNCHANGED << rpcVars, compVars, devVars, authVars, obVars >>

\* this.emit(name, ...) of the collection
emitEvent(sh, name, deviceId, dev, model) ==
  [ sh EXCEPT !.last.events =
      Append(@, [ name |-> name, id |-> deviceId, device |-> dev, model |-> model ]) ]

\* Device.getClass() that finds a class for every model
getClassAny(model) == toUpperCase(model)

\* Device.getClass(model): the class, named by its model, or "undefined"
getClass(model) ==
  IF toUpperCase(model) \in subclasses THEN toUpperCase(model) ELSE "undefined"

\* getDeviceOptions(deviceId): the options of the device over the defaults
getDeviceOptions(deviceId) ==
  [ exclude |-> IF deviceId \in DOMAIN DeviceOptionsMap
                THEN DeviceOptionsMap[deviceId].exclude ELSE FALSE,
    protocol |-> "websocket" ]

\* createRpcHandler() that asks for no hostname
createRpcHandlerAny(identifiers, options) == options.protocol = "websocket"

\* createRpcHandler(): TRUE if it returns a handler, FALSE if it throws
createRpcHandler(identifiers, options) ==
  options.protocol = "websocket" /\ identifiers.hostname # ""

\* Map.delete(key): the other keys keep their order
Without(s, i) == SelectSeq(s, LAMBDA x : x # i)

\* add() that replaces a device of the same id
addOverwrite(sh, dev) ==
  emitEvent([ sh EXCEPT !.pendingDevices = @ \ { dev.id },
                        !.devices[dev.id] = dev,
                        !.order = Append(Without(@, dev.id), dev.id),
                        !.last.returned = "this" ],
            "add", dev.id, dev, "")

\* add(device); Map.set() puts a new key last
add(sh, dev) ==
  IF sh.devices[dev.id] # NoDevice
  THEN [ sh EXCEPT !.last.returned = "throw" ]
  ELSE emitEvent([ sh EXCEPT !.pendingDevices = @ \ { dev.id },
                             !.devices[dev.id] = dev,
                             !.order = Append(@, dev.id),
                             !.last.returned = "this" ],
                 "add", dev.id, dev, "")

\* delete() that emits nothing
deleteSilently(sh, isDevice, deviceId, dev) ==
  LET i == IF isDevice THEN dev.id ELSE deviceId
  IN IF sh.devices[i] # NoDevice
     THEN [ sh EXCEPT !.devices[i] = NoDevice, !.order = Without(@, i),
                      !.last.returned = "true" ]
     ELSE [ sh EXCEPT !.last.returned = "false" ]

\* delete(deviceOrId), given a device (isDevice) or an id
delete(sh, isDevice, deviceId, dev) ==
  LET i == IF isDevice THEN dev.id ELSE deviceId
      device0 == sh.devices[i]
  IN IF device0 # NoDevice
     THEN emitEvent([ sh EXCEPT !.devices[i] = NoDevice, !.order = Without(@, i),
                                !.last.returned = "true" ],
                    "remove", i, device0, "")
     ELSE [ sh EXCEPT !.last.returned = "false" ]

\* the loop of clear(), from the k-th key on
RECURSIVE clearFrom(_, _)
clearFrom(sh, k) ==
  IF k > Len(sh.order) THEN sh
  ELSE clearFrom(emitEvent(sh, "remove", sh.order[k], sh.devices[sh.order[k]], ""), k + 1)

\* clear() that goes through the devices from the last to the first
RECURSIVE clearBackFrom(_, _)
clearBackFrom(sh, k) ==
  IF k = 0 THEN sh
  ELSE clearBackFrom(emitEvent(sh, "remove", sh.order[k], sh.devices[sh.order[k]], ""), k - 1)
clearBackwards(sh) ==
  [ clearBackFrom(sh, Len(sh.order)) EXCEPT
      !.devices = [ i \in DeviceIds |-> NoDevice ], !.order = << >> ]

\* clear()
clear(sh) ==
  [ clearFrom(sh, 1) EXCEPT
      !.devices = [ i \in DeviceIds |-> NoDevice ], !.order = << >> ]

\* forEach(callback): the calls of the callback are recorded as 'visit'
RECURSIVE forEachFrom(_, _)
forEachFrom(sh, k) ==
  IF k > Len(sh.order) THEN sh
  ELSE forEachFrom(emitEvent(sh, "visit", sh.order[k], sh.devices[sh.order[k]], ""), k + 1)
forEach(sh) == forEachFrom(sh, 1)

\* keys(), values() and the iterator, as lists
keys(sh) == sh.order
values(sh) == [ k \in 1..Len(sh.order) |-> sh.devices[sh.order[k]] ]
\* entries(), as a list
entries(sh) == [ k \in 1..Len(sh.order) |-> << sh.order[k], sh.devices[sh.order[k]] >> ]

\* the k-th handleDiscoveredDevice() of the id leaves its await
EndRun(sh, deviceId, k) ==
  [ sh EXCEPT !.discoveries[deviceId] =
      [ j \in 1..(Len(@) - 1) |-> IF j < k THEN @[j] ELSE @[j + 1] ] ]

\* the catch block of handleDiscoveredDevice()
catch(sh, deviceId) ==
  emitEvent([ sh EXCEPT !.pendingDevices = @ \ { deviceId },
                        !.last.returned = "none" ],
            "error", deviceId, NoDevice, "")

\* handleDiscoveredDevice(), up to the await of Shelly.GetDeviceInfo
handleDiscoveredDevice(sh, identifiers) ==
  LET deviceId == identifiers.deviceId
      opts == getDeviceOptions(deviceId)
  IN IF \/ sh.devices[deviceId] # NoDevice
        \/ deviceId \in sh.pendingDevices
        \/ deviceId \in sh.ignoredDevices
     THEN sh
     ELSE IF opts.exclude
          THEN emitEvent([ sh EXCEPT !.ignoredDevices = @ \cup { deviceId } ],
                         "exclude", deviceId, NoDevice, "")
          ELSE LET sh1 == [ sh EXCEPT !.pendingDevices = @ \cup { deviceId } ]
               IN IF createRpcHandler(identifiers, opts)
                  THEN [ sh1 EXCEPT !.last.handler = TRUE,
                                    !.handlers[deviceId] = @ + 1,
                                    !.discoveries[deviceId] =
                                       Append(@, [ stage |-> "info", dev |-> NoDevice ]) ]
                  ELSE [ catch(sh1, deviceId) EXCEPT
                           !.last.noHost[deviceId] = IF @ < 2 THEN @ + 1 ELSE @ ]

\* handleDiscoveredDevice(), from the end of the request to the await of
\* loadStatus()
afterGetDeviceInfo(sh, deviceId, k, info) ==
  IF ~info.ok \/ info.id # deviceId THEN catch(EndRun(sh, deviceId, k), deviceId)
  ELSE IF getClass(info.model) = "undefined"
       THEN emitEvent([ EndRun(sh, deviceId, k) EXCEPT
                          !.ignoredDevices = @ \cup { deviceId } ],
                      "unknown", deviceId, NoDevice, info.model)
       ELSE [ sh EXCEPT !.created = @ + 1,
                        !.discoveries[deviceId][k] =
                           [ stage |-> "status",
                             dev |-> [ id |-> info.id, n |-> sh.created + 1 ] ] ]

\* handleDiscoveredDevice(), from the end of loadStatus() on
afterLoadStatus(sh, deviceId, k, ok) ==
  IF ~ok THEN catch(EndRun(sh, deviceId, k), deviceId)
  ELSE LET sh1 == [ EndRun(sh, deviceId, k) EXCEPT !.pendingDevices = @ \ { deviceId } ]
           sh2 == add(sh1, sh.discoveries[deviceId][k].dev)
       IN IF sh2.last.returned = "throw" THEN catch(sh1, deviceId)
          ELSE [ sh2 EXCEPT !.last.returned = "none" ]

\* a discoverer emits 'discover'
Discover ==
  \E i \in DeviceIds, h \in Hostnames :
    /\ \/ Len(discoveries[i]) < MaxRuns /\ handlers[i] < MaxHandlers
       \/ devices[i] # NoDevice \/ i \in pendingDevices \/ i \in ignoredDevices
    /\ ApplySh(handleDiscoveredDevice(
                 [ ShState EXCEPT !.last.call = Call("discover", i, h, NoInfo, NoDevice) ],
                 [ deviceId |-> i, hostname |-> h ]))

\* the request Shelly.GetDeviceInfo ends: with an error, or with the id and
\* the model the device reports
GetDeviceInfoEnds ==
  \E i \in DeviceIds :
    \E k \in 1..Len(discoveries[i]) :
      /\ discoveries[i][k].stage = "info"
      /\ \E info \in { NoInfo } \cup { [ ok |-> TRUE, id |-> j, model |-> m ] :
                                          j \in DeviceIds, m \in Models } :
           /\ \/ created < MaxDevices
              \/ ~info.ok \/ info.id # i \/ getClass(info.model) = "undefined"
           /\ ApplySh(afterGetDeviceInfo(
                        [ ShState EXCEPT !.last.call = Call("info", i, "", info, NoDevice) ],
                        i, k, info))

\* loadStatus() ends, with or without an error
LoadStatusEnds ==
  \E i \in DeviceIds, ok \in BOOLEAN :
    \E k \in 1..Len(discoveries[i]) :
      /\ discoveries[i][k].stage = "status"
      /\ ApplySh(afterLoadStatus(
                   [ ShState EXCEPT !.last.call =
                       Call("status", i, "", [ NoInfo EXCEPT !.ok = ok ], NoDevice) ],
                   i, k, ok))

\* the user constructs a device and adds it
Add ==
  \E i \in DeviceIds :
    /\ created < MaxDevices
    /\ LET dev == [ id |-> i, n |-> created + 1 ]
       IN ApplySh(add([ ShState EXCEPT !.created = @ + 1,
                                       !.last.call = Call("add", i, "", NoInfo, dev) ],
                      dev))

\* the user deletes by id, or by a device: the one stored or another of that id
Delete ==
  \E i \in DeviceIds, n \in 0..created :
    LET dev == IF n = 0 THEN NoDevice ELSE [ id |-> i, n |-> n ]
    IN ApplySh(delete([ ShState EXCEPT !.last.call = Call("delete", i, "", NoInfo, dev) ],
                      n # 0, i, dev))

\* the user clears the collection (a clear() of an empty collection after a
\* clear() changes nothing)
Clear ==
  /\ order # << >> \/ last.call.op # "clear"
  /\ ApplySh(clear([ ShState EXCEPT !.last.call =
                      Call("clear", "", "", NoInfo, NoDevice) ]))

\* the user goes through the collection (a forEach() after a forEach()
\* changes nothing)
ForEach ==
  /\ last.call.op # "forEach"
  /\ ApplySh(forEach([ ShState EXCEPT !.last.call =
                        Call("forEach", "", "", NoInfo, NoDevice) ]))

InitShellies ==
  RpcInit(FALSE) /\ reconnectInterval = << >> /\ CompInit /\ DevInit /\ ShInit
  /\ AuthInit /\ ObInit
NextShellies ==
  \/ Discover
  \/ GetDeviceInfoEnds
  \/ LoadStatusEnds
  \/ Add
  \/ Delete
  \/ Clear
  \/ ForEach
SpecShellies == InitShellies /\ [][NextShellies]_vars

\* --------------------------------- the authentication response (auth.ts)

\* the challenges of a 401 response: digest or not, SHA-256 or not, with a
\* nonce count or without one
Challenges ==
  [ auth_type : { "digest", "basic" }, nonce : { 1652345678, 7 },
    nc : { Undefined, Num(0), Num(1), Num(2) },
    realm : { "shellypro2-84cca8", "r" }, algorithm : { "SHA-256", "MD5" } ]
\* the passwords a client is constructed with; "" is none
Passwords == { "", "pw" }
\* Math.round(Math.random() * 1000000), at its ends and in between
Cnonces == { 0, 421337, 1000000 }

\* a number as Array.join() writes it: in decimal
NumberString(n) == ToString(n)
\* parts.join(':'), the numbers among the parts written as strings
RECURSIVE join(_)
join(parts) ==
  IF Len(parts) = 0 THEN ""
  ELSE IF Len(parts) = 1 THEN parts[1]
       ELSE parts[1] \o ":" \o join(Tail(parts))
\* the SHA-256 hex digest of a string: a string that names what was hashed
sha256(text) == "sha256(" \o text \o ")"
\* hash(...parts)
hash(parts) == sha256(join(parts))
\* params.nc || 1
NcOr1(nc) == IF nc.t = "number" /\ nc.n # 0 THEN nc.n ELSE 1

\* createAuthResponse() that leaves the nonce count out of the hash
createAuthResponseNoNc(params, pw, cnonce) ==
  IF params.auth_type # "digest" THEN [ NoAnswer EXCEPT !.thrown = "Unsupported authentication type" ]
  ELSE IF params.algorithm # "SHA-256" THEN [ NoAnswer EXCEPT !.thrown = "Unsupported hash algorithm" ]
  ELSE IF pw = "" THEN [ NoAnswer EXCEPT !.thrown = "No password specified" ]
  ELSE [ thrown |-> "", realm |-> params.realm, username |-> "admin",
         nonce |-> params.nonce, cnonce |-> cnonce,
         response |-> hash(<< hash(<< "admin", params.realm, pw >>),
                              NumberString(params.nonce), NumberString(cnonce), "auth",
                              hash(<< "dummy_method", "dummy_uri" >>) >>),
         algorithm |-> "SHA-256" ]

\* createAuthResponse(params), with this.password and the random number drawn:
\* the block, or what is thrown
createAuthResponseBlock(params, pw, cnonce) ==
  IF params.auth_type # "digest" THEN [ NoAnswer EXCEPT !.thrown = "Unsupported authentication type" ]
  ELSE IF params.algorithm # "SHA-256" THEN [ NoAnswer EXCEPT !.thrown = "Unsupported hash algorithm" ]
  ELSE IF pw = "" THEN [ NoAnswer EXCEPT !.thrown = "No password specified" ]
  ELSE [ thrown |-> "", realm |-> params.realm, username |-> "admin",
         nonce |-> params.nonce, cnonce |-> cnonce,
         response |-> hash(<< hash(<< "admin", params.realm, pw >>),
                              NumberString(params.nonce), NumberString(NcOr1(params.nc)),
                              NumberString(cnonce), "auth",
                              hash(<< "dummy_method", "dummy_uri" >>) >>),
         algorithm |-> "SHA-256" ]

\* a 401 response brings a challenge
Challenge401 ==
  /\ \E c \in Challenges : challenge' = c
  /\ answer' = NoAnswer
  /\ UNCHANGED << secret, rpcVars, compVars, devVars, shVars, obVars >>

\* the client sets its authentication up for the challenge
CreateAuthResponse ==
  /\ challenge # NoAuthChallenge
  /\ \E cnonce \in Cnonces : answer' = createAuthResponseBlock(challenge, secret, cnonce)
  /\ UNCHANGED << challenge, secret, rpcVars, compVars, devVars, shVars, obVars >>

InitAuth ==
  /\ RpcInit(FALSE) /\ reconnectInterval = << >> /\ CompInit /\ DevInit /\ ShInit
  /\ ObInit
  /\ challenge = NoAuthChallenge /\ answer = NoAnswer
  /\ secret \in Passwords
NextAuth == Challenge401 \/ CreateAuthResponse
SpecAuth == InitAuth /\ [][NextAuth]_vars

\* ------------------- the outbound handler (rpc/websocket.ts, 278-687)

\* the state of the server's sockets and of the handler as one record; what
\* was emitted is of the last step
ObState == [ sockets |-> obSockets, handler |-> obHandler, last |-> NoObStep ]

ApplyOb(ob) ==
  /\ obSockets' = ob.sockets
  /\ obHandler' = ob.handler
  /\ obLast' = ob.last
  /\ UNCHANGED << rpcVars, compVars, devVars, shVars, authVars >>

\* the step is op, on socket s, with a frame of id i
ObStep(ob, op, s, i) ==
  [ ob EXCEPT !.last.op = op, !.last.sock = s, !.last.id = i ]

\* this.emit(name, ...) of the handler, or of the server
obEmit(ob, name) == [ ob EXCEPT !.last.events = Append(@, name) ]

\* get connected()
obConnected(ob) ==
  ob.handler.socket # 0 /\ ob.sockets[ob.handler.socket].readyState = "OPEN"

\* setupSocket(): the four listeners are put on the current socket
setupSocket(ob) ==
  IF ob.handler.socket = 0 THEN ob
  ELSE [ ob EXCEPT !.sockets[ob.handler.socket].listeners = @ + 1 ]

\* the setter of socket that rejects the pending requests of the old socket
setSocketRejecting(ob, s) ==
  IF s = ob.handler.socket THEN ob
  ELSE setupSocket([ ob EXCEPT
         !.handler.socket = s, !.last.replaced = TRUE,
         !.handler.calls = [ i \in ObCalls |-> IF @[i] = "pending" THEN "rejected" ELSE @[i] ] ])

\* set socket(socket): the listeners of the old socket stay on it
setSocket(ob, s) ==
  IF s = ob.handler.socket THEN ob
  ELSE LET old == ob.handler.socket
           ob1 == setupSocket([ ob EXCEPT !.handler.socket = s, !.last.replaced = TRUE ])
       IN IF s = 0 \/ old = 0 \/ ob.sockets[s].readyState # ob.sockets[old].readyState
          THEN IF s # 0 /\ ob.sockets[s].readyState = "OPEN" THEN obEmit(ob1, "connect")
               ELSE IF old # 0 /\ ob.sockets[old].readyState = "OPEN"
                    THEN obEmit(ob1, "disconnect")
                    ELSE ob1
          ELSE ob1

\* client.receive() of a response with id i: it settles the call if pending
obReceive(ob, i) ==
  IF i \in ObCalls /\ ob.handler.calls[i] = "pending"
  THEN [ ob EXCEPT !.handler.calls[i] = "resolved", !.last.received = i ]
  ELSE ob

\* handleMessage() of the handler, for a frame with id i, or a status
\* notification if i is 0
obHandleMessage(ob, i) ==
  IF i # 0 THEN obReceive(ob, i) ELSE obEmit(ob, "statusUpdate")

\* handleClose() of the handler: the listeners are taken off the current
\* socket
obHandleClose(ob) ==
  obEmit(IF ob.handler.socket # 0
         THEN [ ob EXCEPT !.sockets[ob.handler.socket].listeners =
                  IF @ > 0 THEN @ - 1 ELSE 0 ]
         ELSE ob,
         "disconnect")

\* socket s emits 'message': each messageHandler on it, n of them, is called
RECURSIVE emitMessage(_, _, _)
emitMessage(ob, i, n) ==
  IF n = 0 THEN ob ELSE emitMessage(obHandleMessage(ob, i), i, n - 1)
\* socket s emits 'close': each closeHandler that was on it is called
RECURSIVE emitClose(_, _)
emitClose(ob, n) ==
  IF n = 0 THEN ob ELSE emitClose(obHandleClose(ob), n - 1)

\* the messageHandler of handleConnection(), for the first message of socket
\* s: with a source, the socket is given to the handler of the device and the
\* message emitted again, or a handler is created with the socket; without
\* one, the server emits 'error'; the listeners of the server are taken off
handleConnectionMessage(ob, s, i, src) ==
  LET ob0 == [ ob EXCEPT !.sockets[s].server = FALSE ]
  IN IF ~src THEN obEmit(ob0, "error")
     ELSE IF ob.handler.exists
          THEN LET ob1 == setSocket(ob0, s)
               IN emitMessage(ob1, i, ob1.sockets[s].listeners)
          ELSE obEmit(setupSocket([ ob0 EXCEPT !.handler.exists = TRUE,
                                               !.handler.socket = s ]),
                      "discover")

\* socket s closes: the closeHandler of handleConnection(), if still on it,
\* makes the server emit 'error'; the closeHandlers of the handler are called
socketClosed(ob, s) ==
  LET ob0 == [ ob EXCEPT !.sockets[s].readyState = "CLOSED", !.sockets[s].server = FALSE ]
      ob1 == IF ob.sockets[s].server THEN obEmit(ob0, "error") ELSE ob0
  IN emitClose(ob1, ob.sockets[s].listeners)

\* request() of the handler, the i-th: handleRequest() throws if not
\* connected, and sends on the current socket otherwise
obRequest(ob, i) ==
  LET ob1 == obEmit(ob, "request")
  IN IF ~obConnected(ob1) THEN [ ob1 EXCEPT !.handler.calls[i] = "rejected" ]
     ELSE [ ob1 EXCEPT !.handler.calls[i] = "pending",
                       !.handler.sentOn[i] = ob.handler.socket ]

\* destroy() of the handler: the pending requests are rejected and the
\* current socket is closed
obDestroy(ob) ==
  LET ob1 == [ ob EXCEPT !.handler.calls =
                 [ i \in ObCalls |-> IF @[i] = "pending" THEN "rejected" ELSE @[i] ] ]
  IN IF obConnected(ob1)
     THEN [ ob1 EXCEPT !.sockets[ob.handler.socket].readyState = "CLOSING" ]
     ELSE ob1

\* a device opens a connection to the server
ObConnection ==
  \E s \in ObSocketIds :
    /\ obSockets[s].readyState = "NONE"
    /\ \A t \in ObSocketIds : t < s => obSockets[t].readyState # "NONE"
    /\ ApplyOb([ ObStep(ObState, "connection", s, 0) EXCEPT
                   !.sockets[s] = [ readyState |-> "OPEN", server |-> TRUE,
                                    listeners |-> 0 ] ])

\* the first message of a connection arrives
ObFirstMessage ==
  \E s \in ObSocketIds, i \in 0..NumObReq, src \in BOOLEAN :
    /\ obSockets[s].readyState = "OPEN" /\ obSockets[s].server
    /\ ApplyOb(handleConnectionMessage(ObStep(ObState, "firstMessage", s, i), s, i, src))

\* a later message of a connection arrives
ObMessage ==
  \E s \in ObSocketIds, i \in 0..NumObReq :
    /\ obSockets[s].readyState = "OPEN" /\ ~obSockets[s].server
    /\ ApplyOb(emitMessage(ObStep(ObState, "message", s, i), i, obSockets[s].listeners))

\* a connection closes
ObClose ==
  \E s \in ObSocketIds :
    /\ obSockets[s].readyState \in { "OPEN", "CLOSING" }
    /\ ApplyOb(socketClosed(ObStep(ObState, "close", s, 0), s))

\* the server is asked for the handler of the device before it has connected
ObGetRpcHandler ==
  /\ ~obHandler.exists
  /\ ApplyOb([ ObStep(ObState, "getRpcHandler", 0, 0) EXCEPT !.handler.exists = TRUE ])

\* request() is called
ObRequest ==
  \E i \in ObCalls :
    /\ obHandler.exists /\ obHandler.calls[i] = "none"
    /\ \A j \in ObCalls : j < i => obHandler.calls[j] # "none"
    /\ ApplyOb(obRequest(ObStep(ObState, "request", obHandler.socket, i), i))

\* the timeout of a pending request fires
ObTimeout ==
  \E i \in ObCalls :
    /\ obHandler.calls[i] = "pending"
    /\ ApplyOb([ ObStep(ObState, "timeout", 0, i) EXCEPT !.handler.calls[i] = "timeout" ])

\* destroy() is called
ObDestroy ==
  /\ obHandler.exists /\ obLast.op # "destroy"
  /\ ApplyOb(obDestroy(ObStep(ObState, "destroy", obHandler.socket, 0)))

InitOutbound ==
  /\ RpcInit(FALSE) /\ reconnectInterval = << >> /\ CompInit /\ DevInit /\ ShInit
  /\ AuthInit /\ ObInit
NextOutbound ==
  \/ ObConnection
  \/ ObFirstMessage
  \/ ObMessage
  \/ ObClose
  \/ ObGetRpcHandler
  \/ ObRequest
  \/ ObTimeout
  \/ ObDestroy
SpecOutbound == InitOutbound /\ [][NextOutbound]_vars

\* ------------------------------------------------------------- properties

Calls == 1..NumReq
Live == { s \in 1..Len(sockets) : sockets[s].readyState \in { "CONNECTING", "OPEN" } }

\* C1: no socket is created while another socket is connecting or open: at
\* any time at most one of the sockets created is connecting or open.
C1_NoDuplicateSocket == Cardinality(Live) <= 1

\* C2, as stated: with a password, a call whose first response is a 401 with a
\* well-formed challenge is re-issued exactly once, with the computed auth
\* block; after a second 401 it ends "Invalid password" without a third attempt.
C2_OneReattemptOriginal ==
  \A i \in Calls :
    password /\ calls[i].first \in { "401ok", "401ok/auth" } =>
      /\ calls[i].attempts = 2
      /\ calls[i].stage # "done" => calls[i].reqAuth.by = i
      /\ calls[i].outcome # "Unauthorized"

\* C2, amended: the same, for a call whose first attempt carried no auth
\* block.
C2_OneReattempt ==
  \A i \in Calls :
    password /\ calls[i].first = "401ok" =>
      /\ calls[i].attempts = 2
      /\ calls[i].stage # "done" => calls[i].reqAuth.by = i
      /\ calls[i].outcome # "Unauthorized"

\* a call that was challenged, re-issued and answered 401 again
C2_Witness ==
  \E i \in Calls :
    /\ password /\ calls[i].first = "401ok"
    /\ calls[i].stage = "done" /\ calls[i].outcome = "Invalid password"

\* C3: a call whose 401 carries a challenge that cannot be processed is
\* rejected with the error of the processing and is not sent again.
C3_ChallengeErrorRejects ==
  \A i \in Calls :
    password /\ calls[i].first = "401bad" =>
      /\ calls[i].attempts = 1
      /\ calls[i].stage = "done"
      /\ calls[i].outcome = "Failed to setup authentication"

\* C4: the first attempt of a request carries no auth block computed from a
\* challenge that came on another socket than the one it is sent on.
C4_AuthClearedOnReplace ==
  \A f \in wire : f.attempt = 1 /\ f.auth # NoAuth => f.auth.sock = f.sock

TimedOut(i) == calls[i].resp = "timeout" \/ calls[i].outcome = "timeout"

\* the timer of call i expires in this step while the call is pending
Expires(i) ==
  /\ calls[i].timer /\ ~calls'[i].timer
  /\ i \in idToResolveMap
  /\ wire' = wire /\ waiters' = waiters /\ destroyed' = destroyed

\* C5: when the timer of a pending call expires, the call is rejected with the
\* timeout error (at once, or when its send ends) and its id leaves the table
\* for good; a response frame with that id that arrives later changes nothing.
C5_TimeoutDiscardsEntry ==
  [][ /\ \A i \in Calls : Expires(i) => TimedOut(i)' /\ i \notin idToResolveMap'
      /\ \A i \in Calls : TimedOut(i) =>
           /\ i \notin idToResolveMap'
           /\ IF calls'[i].stage = "done" THEN calls'[i].outcome = "timeout"
                                          ELSE calls'[i].resp = "timeout"
      /\ \A f \in wire :
           wire' = wire \ { f } /\ sockets' = sockets /\ TimedOut(f.id) =>
             UNCHANGED << password, reconnectInterval, sockets, timeout,
                          reconnectIntervalIndex, idToResolveMap, id, auth,
                          calls, waiters, destroyed >> ]_vars

\* a call has timed out and a response with its id is about to arrive
C5_Witness ==
  \E f \in wire :
    /\ calls[f.id].stage = "done" /\ calls[f.id].outcome = "timeout"
    /\ sockets[f.sock].readyState = "OPEN" /\ sockets[f.sock].handlers
    /\ Quiescent

Min(x, y) == IF x < y THEN x ELSE y

\* C6: the k-th abnormal close in a row since the last open arms the reconnect
\* timer with L[min(k, |L|)] seconds, and an open resets the index to 0.
C6_BackoffByCloseCount ==
  (\A k \in 1..Len(reconnectInterval) : reconnectInterval[k] > 0) =>
  /\ timeout.kind = "reconnect" /\ hist.closes >= 1 =>
       timeout.ms = reconnectInterval[Min(hist.closes, Len(reconnectInterval))] * 1000
  /\ hist.closes = 0 => reconnectIntervalIndex = 0

\* C7: once destroy() has completed, and until request() is called again, every
\* socket is closed, no timer is armed and no connection attempt is under way.
C7_DestroyStopsEverything ==
  destroyed = "done" /\ id = hist.idAtDestroy =>
    /\ \A s \in 1..Len(sockets) : sockets[s].readyState = "CLOSED"
    /\ timeout = NoTimer
    /\ waiters = << >>

Closed(c) == IF c.stage = "done" THEN c.outcome = "closed" ELSE c.resp = "closed"

\* C8: destroy() empties the table and rejects every request in it with
\* "Connection closed"; no request made before it stays without a result: each
\* is settled, or is rejected as soon as its send ends, those still waiting for
\* the socket included; none of them enters the table again.
C8_DestroyRejectsPending ==
  [][ /\ destroyed = "no" /\ destroyed' # "no" =>
           /\ idToResolveMap' = {}
           /\ \A i \in idToResolveMap : Closed(calls'[i])
           /\ \A i \in 1..id : calls'[i].stage = "done"
                               \/ calls'[i].resp \in { "closed", "timeout" }
      /\ \A i \in Calls : calls[i].stage # "done" /\ calls[i].resp = "closed" =>
           Closed(calls'[i])
      /\ destroyed' # "no" => \A i \in 1..hist'.idAtDestroy : i \notin idToResolveMap' ]_vars

\* destroy() was called while a request was waiting for the socket to open
C8_Witness ==
  \E i \in Calls :
    /\ destroyed # "no" /\ i <= hist.idAtDestroy
    /\ calls[i].stage = "send" /\ calls[i].resp = "closed"

\* C9: the number of 'change' events of an update() equals the number of
\* characteristics whose value differs from the one before the call.
C9_ChangeCountEqualsDiff ==
  Len(events) = Cardinality({ c \in DOMAIN comp : comp[c] # prev[c] })

\* the fields of object x overlaid with those of v (null has none)
Overlay(x, v) ==
  IF x.t = "object" /\ v.t = "object"
  THEN Obj([ k \in DOMAIN x.o \cup DOMAIN v.o |->
               IF k \in DOMAIN v.o THEN v.o[k] ELSE x.o[k] ])
  ELSE IF x.t = "object" THEN x ELSE v

\* C10: after update() a number or a list given in the payload equals the
\* given value, and a compound equals its old fields overlaid with the given.
C10_ReplaceOrShallowMerge ==
  \A c \in DOMAIN data \cap DOMAIN comp :
    IF c = "temperature" THEN comp[c] = Overlay(prev[c], data[c])
    ELSE comp[c] = data[c]

\* the fields of the payload's temperature that differ from the stored ones
Differing ==
  IF "temperature" \in DOMAIN data /\ data.temperature.t = "object"
  THEN { f \in DOMAIN data.temperature.o : data.temperature.o[f] # prev.temperature.o[f] }
  ELSE {}

EventsFor(c) == { k \in 1..Len(events) : events[k].c = c }

\* C11: update() of the compound characteristic with a deeply equal value
\* emits no change event for it and leaves it as it was; with an object that
\* differs in exactly one field it emits exactly one, sets that field and
\* leaves the other fields with their previous values.
C11_CompoundEqualOrOneField ==
  "temperature" \in DOMAIN data /\ data.temperature.t = "object" =>
    /\ data.temperature = prev.temperature =>
          EventsFor("temperature") = {} /\ comp.temperature = prev.temperature
    /\ Cardinality(Differing) = 1 =>
          /\ Cardinality(EventsFor("temperature")) = 1
          /\ comp.temperature.t = "object"
          /\ DOMAIN comp.temperature.o = Fields
          /\ \A f \in Fields :
                comp.temperature.o[f] = IF f \in Differing THEN data.temperature.o[f]
                                                            ELSE prev.temperature.o[f]

\* a payload naming one field only changes it and a sibling keeps its value
C11_Witness ==
  /\ Cardinality(Differing) = 1
  /\ DOMAIN data.temperature.o # Fields
  /\ \E f \in Fields \ Differing : comp.temperature.o[f] = "x"

\* the place of characteristic c in the declaration order
Pos(c) == CHOOSE k \in 1..Len(Characteristics) : Characteristics[k] = c

\* C12: every change event of an update() carries the final value of its
\* characteristic and is emitted when the whole payload has been applied (its
\* listener finds the final component); one event per changed characteristic,
\* in the order of declaration.
C12_EmitAfterApplyInOrder ==
  /\ \A k \in 1..Len(events) :
        events[k].seen = comp /\ events[k].value = comp[events[k].c]
  /\ \A j, k \in 1..Len(events) : j < k => Pos(events[j].c) < Pos(events[k].c)

\* an update() that changed two characteristics
C12_Witness ==
  /\ Len(events) >= 2
  /\ \A k \in 1..Len(events) : comp[events[k].c] # prev[events[k].c]

\* C13: on one connection at most one AuthContext is computed: every auth
\* block carried by a request that was computed from a challenge of the
\* connection of the stored AuthContext is the stored AuthContext.
C13_OneAuthContextPerConnection ==
  \A i \in Calls :
    calls[i].reqAuth # NoAuth /\ calls[i].reqAuth.sock = auth.sock =>
      calls[i].reqAuth = auth

\* C14: without a password no AuthContext is ever stored or sent, and a call
\* whose response is a 401 is rejected with "Unauthorized" after one attempt.
C14_UnauthorizedWithoutPassword ==
  ~password =>
    /\ auth = NoAuth
    /\ \A f \in wire : f.auth = NoAuth /\ f.attempt = 1
    /\ \A i \in Calls :
         /\ calls[i].attempts <= 1
         /\ calls[i].first \in { "401ok", "401bad" } =>
              calls[i].stage = "done" /\ calls[i].outcome = "Unauthorized"
         /\ calls[i].outcome = "Unauthorized" => calls[i].first \in { "401ok", "401bad" }

\* a request was answered 401 with no password configured
C14_Witness ==
  /\ ~password
  /\ \E i \in Calls : calls[i].first = "401ok" /\ calls[i].outcome = "Unauthorized"

\* C15: the expiry of the timer of a pending request changes that request
\* only: every other call, with its timer and its entry in the table, the
\* sockets, this.timeout, the reconnect index and the AuthContext stay.
C15_TimeoutScopedToRequest ==
  [][ \A i \in Calls : Expires(i) =>
        /\ \A j \in Calls \ { i } :
              calls'[j] = calls[j] /\ (j \in idToResolveMap' <=> j \in idToResolveMap)
        /\ UNCHANGED << sockets, timeout, reconnectIntervalIndex, auth, id >> ]_vars

\* a request has timed out while another is pending, the connection is open
\* and the ping timer is armed
C15_Witness ==
  \E i, j \in Calls :
    /\ calls[i].outcome = "timeout"
    /\ j \in idToResolveMap /\ calls[j].timer /\ calls[j].stage = "sent"
    /\ readyState(State) = "OPEN" /\ timeout.kind = "ping"

\* C16: a termination is pending exactly while a ping of the open socket is
\* unanswered; a pong cancels it and arms the next ping after pingInterval.
C16_KeepaliveDeadline ==
  /\ timeout.kind = "pong" =>
        readyState(State) \in { "OPEN", "CLOSING" } /\ sockets[cur(State)].pinged
  /\ readyState(State) = "OPEN" /\ sockets[cur(State)].pinged => timeout.kind = "pong"

\* the last step handled an abnormal close
AbnormalCloseHandled ==
  hist.disconnect # NoEvent /\ hist.disconnect.code # NormalClosure

\* reconnectInterval is 0 or empty, or the index has reached a last element 0
Exhausted ==
  \/ Len(reconnectInterval) = 0
  \/ reconnectInterval = <<0>>
  \/ /\ reconnectIntervalIndex = Len(reconnectInterval) - 1
     /\ reconnectInterval[Len(reconnectInterval)] = 0

\* the timer and the event after a close that schedules no reconnect
NothingScheduled == timeout = NoTimer /\ hist.disconnect.reconnectIn = -1

\* the timer and the event after a close that schedules a reconnect, after the
\* interval at the index, which stays at the last element once it is there
ScheduledAtIndex ==
  /\ reconnectIntervalIndex < Len(reconnectInterval)
  /\ timeout = [ kind |-> "reconnect",
                 ms |-> reconnectInterval[reconnectIntervalIndex + 1] * 1000 ]
  /\ hist.disconnect.reconnectIn = timeout.ms
  /\ timeout.ms > 0

\* C17, as stated: an abnormal close schedules no reconnect and emits
\* reconnectIn = null when reconnectInterval is 0 or empty or is exhausted with
\* a last element 0; every other abnormal close schedules one and reconnectIn
\* is its delay in ms.
C17_ReconnectPolicyOriginal ==
  AbnormalCloseHandled => IF Exhausted THEN NothingScheduled ELSE ScheduledAtIndex

\* C17, amended: no reconnect and reconnectIn = null when the list is empty or
\* the interval at the reconnect index is 0, wherever in the list; else the
\* reconnect is scheduled after that interval and reconnectIn is the delay.
C17_ReconnectPolicy ==
  /\ Len(reconnectInterval) > 0 => reconnectIntervalIndex < Len(reconnectInterval)
  /\ AbnormalCloseHandled =>
        IF Len(reconnectInterval) = 0 \/ reconnectInterval[reconnectIntervalIndex + 1] = 0
        THEN NothingScheduled ELSE ScheduledAtIndex

\* the list was used up to a last element 0: nothing more is scheduled
C17_Witness ==
  /\ AbnormalCloseHandled
  /\ Len(reconnectInterval) > 1
  /\ reconnectIntervalIndex = Len(reconnectInterval) - 1
  /\ hist.disconnect.reconnectIn = -1

\* C18: when a socket closes with code 1000 no reconnect timer is pending
\* afterwards, the 'disconnect' event carries reconnectIn = null and the
\* handler is not connected; when it closes with another code the close is
\* handled and a reconnect is pending exactly if the policy gives a delay.
C18_NormalCloseNoReconnect ==
  [][ \A s \in 1..Len(sockets) :
        sockets[s].readyState # "CLOSED" /\ sockets'[s].readyState = "CLOSED" =>
          IF sockets[s].closeCode = NormalClosure
          THEN /\ timeout'.kind # "reconnect"
               /\ hist'.disconnect.reconnectIn = -1
               /\ sockets'[Len(sockets')].readyState # "OPEN"
          ELSE /\ hist'.disconnect.code = sockets[s].closeCode
               /\ timeout'.kind = "reconnect" <=> hist'.disconnect.reconnectIn # -1 ]_vars

\* every interval of the reconnect policy is positive
PolicyEnabled ==
  /\ Len(reconnectInterval) > 0
  /\ \A k \in 1..Len(reconnectInterval) : reconnectInterval[k] > 0

\* C19: with the reconnect policy enabled and destroy() not called, after
\* every abnormal close of a socket a connection exists or is being made, or
\* the timer of the next attempt is pending: the attempts never stop.
C19_SelfHeals ==
  [][ \A s \in 1..Len(sockets) :
        /\ sockets[s].readyState # "CLOSED" /\ sockets'[s].readyState = "CLOSED"
        /\ sockets[s].closeCode # NormalClosure
        /\ PolicyEnabled /\ destroyed' = "no"
        => \/ timeout'.kind = "reconnect"
           \/ \E t \in 1..Len(sockets') : sockets'[t].readyState \in { "CONNECTING", "OPEN" }
           \/ \E k \in 1..Len(waiters') : waiters'[k].kind = "disc" ]_vars

\* the frames sent in this step
Sent == wire' \ wire

\* the waiter whose await is continued next
NextReady == CHOOSE k \in Ready(State) : \A j \in Ready(State) : k <= j

\* this step continues the connect() of a request whose socket has opened
ResumesOpened ==
  /\ ~Quiescent
  /\ waiters[NextReady].kind = "conn" /\ waiters[NextReady].st = "ok"
  /\ waiters[NextReady].p.who = "req"
  /\ waiters' = RemoveAt(waiters, NextReady)
  /\ destroyed = "no" /\ destroyed' = "no"

\* C20: an envelope is sent only on an open socket, tagged with the client id
\* and carrying the method and parameters of the call (Shelly.Reboot with
\* delay_ms 500 for reboot(500)); a call is sent once, and again only after a
\* 401; and when the connection a request waited for has opened, its
\* envelope is sent.
C20_SentOnceWhenOpen ==
  [][ /\ \A f \in Sent :
           /\ sockets[f.sock].readyState = "OPEN"
           /\ f.src = ClientId /\ f.method = << "Shelly", "Reboot" >>
           /\ f.params = IF f.id = 1 THEN [ delay_ms |-> Num(500) ] ELSE << >>
           /\ calls[f.id].stage = "send" /\ calls'[f.id].stage # "send"
           /\ f.attempt = calls[f.id].attempts
           /\ f.attempt > 1 => calls[f.id].first \in { "401ok", "401bad" }
      /\ ResumesOpened => \E f \in Sent : f.id = waiters[NextReady].p.id ]_vars

\* no call has been answered 401
NoChallenge == \A i \in Calls : calls[i].first \in { "none", "other" }

\* C21: while no authentication challenge has occurred, the requests sent on
\* one connection go out in the order of their calls: a request is never sent
\* on a socket after a request that was called later.
C21_FifoSendOrder ==
  [][ NoChallenge =>
        \A f \in Sent : f.attempt = 1 => f.id > sockets[f.sock].lastId ]_vars

\* the declared characteristics, and the payload without its other keys
Declared == { Characteristics[k] : k \in 1..Len(Characteristics) }
DeclaredPart(d) == [ k \in DOMAIN d \cap Declared |-> d[k] ]

\* C23: update() with a payload of undeclared keys only changes no
\* characteristic and emits no event; no undeclared key of a payload is ever
\* stored on the component, and a mixed payload has the effect of its declared
\* keys alone.
C23_UndeclaredKeysIgnored ==
  /\ DOMAIN data \cap Declared = {} => comp = prev /\ events = << >>
  /\ DOMAIN comp = Declared
  /\ comp = update(prev, DeclaredPart(data)).comp
  /\ events = emit(update(prev, DeclaredPart(data)))

\* an update() with undeclared keys only on a component that had changed, and
\* before it one with a mixed payload
C23_Witness ==
  /\ DOMAIN data = { "id" }
  /\ comp # InitComp

\* the frame the log is about
FrameOf(lg) == [ id |-> lg[1].args[1].n, method |-> lg[1].name, params |-> lg[1].args[2] ]
\* the entries of a kind, in order
OfKind(lg, kind) == SelectSeq(lg, LAMBDA x : x.kind = kind)
\* the events the handler emitted
HandlerEvents(lg) == SelectSeq(lg, LAMBDA x : x.kind = "emit" /\ x.key = HandlerKey)
\* this step handles a frame
FrameStep == log' # << >> /\ sockets' = sockets

\* handleMessage() routes a frame by its shape: with an id to client.receive()
\* and nothing else; without id, NotifyStatus and NotifyFullStatus to one
\* 'statusUpdate' with the params, NotifyEvent to one 'event' with the params,
\* anything else nowhere, with no change of state.
RoutedByShape ==
  [][ FrameStep =>
        LET d == FrameOf(log')
            rest == Tail(log')
        IN /\ d.id # 0 =>
                /\ rest = << Entry("receive", HandlerKey, "", << Num(d.id) >>) >>
                /\ device' = device
           /\ d.id = 0 /\ d.method \in { "NotifyStatus", "NotifyFullStatus" } =>
                /\ OfKind(rest, "receive") = << >>
                /\ HandlerEvents(rest) = << Entry("emit", HandlerKey, "statusUpdate", << d.params >>) >>
                /\ rest[1].key = HandlerKey
           /\ d.id = 0 /\ d.method = "NotifyEvent" =>
                /\ OfKind(rest, "receive") = << >>
                /\ HandlerEvents(rest) = << Entry("emit", HandlerKey, "event", << d.params >>) >>
                /\ rest[1].key = HandlerKey
           /\ d.id = 0 /\ d.method \notin { "NotifyStatus", "NotifyFullStatus", "NotifyEvent" } =>
                /\ rest = << >>
                /\ device' = device
                /\ UNCHANGED rpcVars ]_vars

\* C22: every inbound frame is routed to its destination: a frame that
\* answers a request, arriving on an open socket of the handler, is handed to
\* handleMessage() and so to the pending-request table.
C22_EveryFrameRouted ==
  \A f \in wire : sockets[f.sock].readyState = "OPEN" => sockets[f.sock].handlers

\* C24: on a status notification update() is called exactly once, with the
\* sub-object of its key, on each component whose key is in the payload, and on
\* no other; 'ts' and keys of no component change nothing.  NotifyStatus with
\* { ts: 100, "switch:0": { output: true } } sets the output of switch 0 and
\* fires 'change' with ('output', true).
C24_StatusUpdatePerKey ==
  [][ FrameStep /\ Route(FrameOf(log')) = "statusUpdate" =>
        LET upd == FrameOf(log').params
            ups == OfKind(log', "update")
        IN /\ \A j \in 1..Len(ups) : ups[j].key \in SwitchKeys \cap DOMAIN upd
           /\ \A k \in SwitchKeys :
                IF k \in DOMAIN upd
                THEN /\ Cardinality({ j \in 1..Len(ups) : ups[j].key = k }) = 1
                     /\ \A j \in 1..Len(ups) : ups[j].key = k => ups[j].args = << upd[k].o >>
                     /\ device'[k] = update(device[k], upd[k].o).comp
                ELSE device'[k] = device[k]
           /\ upd = MkStatus(Num(100), Obj([ output |-> Num(1) ]), Absent, Absent)
              /\ device[Switch0].output = Num(0) =>
                /\ device'[Switch0].output = Num(1)
                /\ \E j \in 1..Len(log') :
                     log'[j] = Entry("change", Switch0, "output", << Num(1) >>) ]_vars

\* the notification of the example has arrived and the switch has changed
C24_Witness ==
  /\ log # << >>
  /\ log[1].name = "NotifyStatus"
  /\ log[1].args[2] = MkStatus(Num(100), Obj([ output |-> Num(1) ]), Absent, Absent)
  /\ \E j \in 1..Len(log) : log[j] = Entry("change", Switch0, "output", << Num(1) >>)

\* C25: on an event notification handleEvent() is called once for each event
\* of the batch whose component the device has, with that event, on that
\* component, in the order of the batch; the other events are dropped and the
\* events after them are still delivered.
C25_EventsForwardedInOrder ==
  log # << >> /\ Route(FrameOf(log)) = "event" =>
    LET batch == FrameOf(log).params[EventsKey].a
        known == SelectSeq(batch, LAMBDA e : hasComponent(e.component))
        hs == OfKind(log, "handleEvent")
    IN /\ Len(hs) = Len(known)
       /\ \A k \in 1..Len(hs) :
            hs[k].key = known[k].component /\ hs[k].args = << known[k] >>

\* a batch whose first event names no component and whose second was delivered
C25_Witness ==
  /\ log # << >> /\ Route(FrameOf(log)) = "event"
  /\ Len(FrameOf(log).params[EventsKey].a) = 2
  /\ FrameOf(log).params[EventsKey].a[1].component = UnknownKey
  /\ OfKind(log, "handleEvent") # << >>

\* C26: handleEvent() of every class, the overriding System and WiFi
\* included, answers 'config_changed' with 'configChange' carrying the cfg_rev
\* and restart_required of the event; an override emits its own event for its
\* own names only.
C26_ConfigChangeNotSwallowed ==
  \A k \in 1..Len(log) :
    log[k].kind = "handleEvent" =>
      LET e == log[k].args[1]
          own == \/ Components[log[k].key] = "System" /\ e.event = "ota_begin"
                 \/ Components[log[k].key] = "WiFi" /\ e.event = "sta_connect_fail"
      IN /\ e.event = "config_changed" =>
              /\ k < Len(log)
              /\ log[k + 1] = Entry("emit", log[k].key, "configChange",
                                    << e.cfg_rev, e.restart_required >>)
         /\ own => k < Len(log) /\ log[k + 1].kind = "emit"
                               /\ log[k + 1].name # "configChange"
         /\ e.event # "config_changed" /\ ~own =>
              k = Len(log) \/ log[k + 1].kind # "emit"

\* System, which overrides handleEvent(), was given 'config_changed'
C26_Witness ==
  \E k \in 1..Len(log) :
    /\ log[k].kind = "handleEvent" /\ log[k].name = "config_changed"
    /\ Components[log[k].key] = "System"
    /\ k < Len(log) /\ log[k + 1].name = "configChange"


\* the events of the last call, by name
Named(name) == SelectSeq(last.events, LAMBDA e : e.name = name)
\* the step is the call or the continuation op
Step(op) == last'.call.op = op /\ last' # last
\* the id is known to the collection: a discover event for it is ignored
Known(i) == devices[i] # NoDevice \/ i \in pendingDevices \/ i \in ignoredDevices
ShUnchanged ==
  UNCHANGED << devices, order, pendingDevices, ignoredDevices, discoveries, handlers, created >>

\* C27: a device that reports a model no class is registered for makes
\* nothing throw and no 'error' event: getClass() returns undefined, 'unknown'
\* is emitted once with the id of the device and its model, no device is
\* constructed or added, the id becomes ignored and stays so, and a later
\* discover event for an ignored id changes nothing and emits nothing.
C27_UnknownModelIgnored ==
  [][ /\ Step("info") /\ last'.call.info.ok /\ last'.call.info.id = last'.call.id
         /\ toUpperCase(last'.call.info.model) \notin subclasses
         => /\ getClass(last'.call.info.model) = "undefined"
            /\ last'.events = << [ name |-> "unknown", id |-> last'.call.id,
                                   device |-> NoDevice,
                                   model |-> last'.call.info.model ] >>
            /\ last'.returned # "throw"
            /\ devices' = devices /\ created' = created
            /\ last'.call.id \in ignoredDevices'
      /\ ignoredDevices \subseteq ignoredDevices'
      /\ Step("discover") /\ last'.call.id \in ignoredDevices
         => /\ ShUnchanged
            /\ last'.events = << >> /\ ~last'.handler /\ last'.returned # "throw"
    ]_vars
\* a discover event has come for an id ignored for its model
C27_Witness ==
  /\ last.call.op = "discover" /\ last.call.id \in ignoredDevices
  /\ last.call.id \notin DOMAIN DeviceOptionsMap
  /\ devices[last.call.id] = NoDevice

\* C28 as stated: over a run, an id discovered without a hostname makes one
\* attempt and one 'error' event, and no further attempt.
C28_AtMostOneAttempt == \A i \in DeviceIds : last.noHost[i] <= 1
\* C28: every discover event without a hostname, for an id that is neither
\* known nor excluded, creates no RPC handler and no device, emits exactly one
\* 'error' event for the id, and leaves the id neither pending nor ignored: the
\* next discover event for the id is handled anew.
C28_NoHostnameFailsEachTime ==
  [][ Step("discover") /\ last'.call.hostname = "" /\ ~Known(last'.call.id)
      /\ ~getDeviceOptions(last'.call.id).exclude
      => /\ ~last'.handler
         /\ created' = created /\ devices' = devices /\ discoveries' = discoveries
         /\ last'.events = << [ name |-> "error", id |-> last'.call.id,
                                device |-> NoDevice, model |-> "" ] >>
         /\ last'.call.id \notin pendingDevices'
         /\ last'.call.id \notin ignoredDevices'
         /\ last'.noHost[last'.call.id] > last.noHost[last'.call.id]
            \/ last.noHost[last'.call.id] = 2
    ]_vars
\* an id has failed a second time for want of a hostname
C28_Witness ==
  /\ last.call.op = "discover" /\ last.call.hostname = ""
  /\ last.noHost[last.call.id] = 2
  /\ Len(Named("error")) = 1

\* C29: add() of a device whose id is in the collection throws, emits nothing
\* and leaves the collection as it was, so that the id still maps to the first
\* device; add() of a device with a new id stores it under its id, emits 'add'
\* exactly once, with the device, and returns the collection.
C29_AddRejectsDuplicateId ==
  [][ Step("add")
      => LET dev == last'.call.device
         IN IF devices[dev.id] # NoDevice
            THEN /\ last'.returned = "throw"
                 /\ last'.events = << >>
                 /\ devices' = devices
            ELSE /\ last'.returned = "this"
                 /\ last'.events = << [ name |-> "add", id |-> dev.id,
                                        device |-> dev, model |-> "" ] >>
                 /\ devices' = [ devices EXCEPT ![dev.id] = dev ]
    ]_vars
\* a second device of an id in the collection has been given to add()
C29_Witness ==
  /\ last.call.op = "add" /\ last.returned = "throw"
  /\ devices[last.call.device.id] # NoDevice
  /\ devices[last.call.device.id] # last.call.device

\* C30: delete() of an id, or of a device whose id, is in the collection
\* returns true, removes the entry and emits 'remove' exactly once, with the
\* device that was stored; otherwise it returns false, emits nothing and
\* leaves the collection as it was.
C30_DeleteReportsRemoval ==
  [][ Step("delete")
      => LET i == last'.call.id
         IN IF devices[i] # NoDevice
            THEN /\ last'.returned = "true"
                 /\ devices' = [ devices EXCEPT ![i] = NoDevice ]
                 /\ last'.events = << [ name |-> "remove", id |-> i,
                                        device |-> devices[i], model |-> "" ] >>
            ELSE /\ last'.returned = "false"
                 /\ last'.events = << >>
                 /\ devices' = devices
    ]_vars
\* a device has been deleted by a device object, and the id is gone
C30_Witness ==
  /\ last.call.op = "delete" /\ last.call.device # NoDevice
  /\ last.returned = "true" /\ Len(Named("remove")) = 1
  /\ devices[last.call.id] = NoDevice


\* the place of an id among the keys
PlaceOf(s, i) == CHOOSE k \in 1..Len(s) : s[k] = i
InSeq(s, i) == \E k \in 1..Len(s) : s[k] = i
\* the events of a call that goes through the devices held, in their order
InOrder(name) ==
  [ k \in 1..Len(order) |->
      [ name |-> name, id |-> order[k], device |-> devices[order[k]], model |-> "" ] ]

\* C31: clear() emits exactly one 'remove' event per device held, in the order
\* the devices were added, and leaves the collection empty; forEach(), keys(),
\* values() and entries() go through the devices in the same order. The order
\* is that of adding: the keys are the ids that hold a device, each once, a
\* step never swaps two ids that stay, and an id that comes in comes last.
C31_ClearInInsertionOrder ==
  [][ /\ \A i \in DeviceIds : InSeq(order, i) <=> devices[i] # NoDevice
      /\ \A k, l \in 1..Len(order) : order[k] = order[l] => k = l
      /\ \A i, j \in DeviceIds :
           InSeq(order', i) /\ InSeq(order', j) /\ PlaceOf(order', i) < PlaceOf(order', j)
           => \/ InSeq(order, i) /\ InSeq(order, j) /\ PlaceOf(order, i) < PlaceOf(order, j)
              \/ ~InSeq(order, j)
      /\ Step("clear")
         => /\ last'.events = InOrder("remove")
            /\ \A i \in DeviceIds : devices'[i] = NoDevice
            /\ order' = << >>
      /\ Step("forEach")
         => /\ last'.events = InOrder("visit")
            /\ devices' = devices /\ order' = order
      /\ keys(ShState) = order
      /\ Len(values(ShState)) = Len(order) /\ Len(entries(ShState)) = Len(order)
      /\ \A k \in 1..Len(order) :
           /\ values(ShState)[k] = devices[order[k]]
           /\ entries(ShState)[k] = << order[k], devices[order[k]] >>
    ]_vars
\* clear() has removed two devices, and first the one constructed last: it was
\* added first
C31_Witness ==
  /\ last.call.op = "clear" /\ Len(last.events) = 2
  /\ last.events[1].name = "remove" /\ last.events[2].name = "remove"
  /\ last.events[1].device.n > last.events[2].device.n
  /\ \A i \in DeviceIds : devices[i] = NoDevice


\* the hash of the parts joined with ':', written out
H2(a, b) == sha256(a \o ":" \o b)
H3(a, b, c) == sha256(a \o ":" \o b \o ":" \o c)
H6(a, b, c, d, e, f) ==
  sha256(a \o ":" \o b \o ":" \o c \o ":" \o d \o ":" \o e \o ":" \o f)
\* the block has the response of the composition, with the nonce count n
Composed(n) ==
  /\ answer.realm = challenge.realm /\ answer.nonce = challenge.nonce
  /\ answer.username = "admin"
  /\ answer.response =
       H6(H3("admin", challenge.realm, secret), ToString(challenge.nonce), ToString(n),
          ToString(answer.cnonce), "auth", H2("dummy_method", "dummy_uri"))
\* createAuthResponse() has returned a block for the challenge
Answered == answer # NoAnswer /\ answer.thrown = ""

\* C32 as stated: the nonce count of the response is the nc of the challenge,
\* or 1 when the challenge has no nc.
C32_NcOfChallenge ==
  Answered => Composed(IF challenge.nc = Undefined THEN 1 ELSE challenge.nc.n)
\* C32: the auth block has response = H(H("admin":realm:password) : nonce :
\* n : cnonce : "auth" : H("dummy_method":"dummy_uri")), where n is the nc of
\* the challenge if it has one that is not 0, and 1 if it has none or its nc
\* is 0; realm and nonce are those of the challenge, the username is "admin",
\* the cnonce is the one of the block, and H joins its parts with ':' and
\* takes the SHA-256 hex digest.
C32_AuthResponseComposition ==
  Answered
  => Composed(IF challenge.nc = Undefined \/ challenge.nc = Num(0) THEN 1
              ELSE challenge.nc.n)
\* a block was made for a challenge with a nonce count of 0: the response
\* has 1 in its place
C32_Witness ==
  /\ Answered /\ challenge.nc = Num(0)
  /\ answer.response =
       "sha256(sha256(admin:r:pw):7:1:421337:auth:sha256(dummy_method:dummy_uri))"


\* C33: at most one transport handler per device id is alive (created and not
\* destroyed) at any time, whatever the discover events and the outcomes of
\* the requests.
C33_OneHandlerPerDevice == \A i \in DeviceIds : handlers[i] <= 1

\* C34: discover events for an id that arrive while an earlier discovery of
\* the id is at an await are ignored: at most one construction per id is in
\* flight, and a discover event for an id that is added, pending or ignored
\* creates no RPC handler and emits nothing.
C34_OneDiscoveryInFlight ==
  [][ /\ \A i \in DeviceIds : Len(discoveries'[i]) <= 1
      /\ Step("discover") /\ Known(last'.call.id)
         => ShUnchanged /\ last'.events = << >> /\ ~last'.handler
    ]_vars

\* C35: pendingDevices holds exactly the ids whose discovery is in flight, and
\* no id is in pendingDevices together with devices or ignoredDevices.
C35_PendingIsInFlight ==
  \A i \in DeviceIds :
    /\ i \in pendingDevices <=> discoveries[i] # NoDiscovery
    /\ i \in pendingDevices => devices[i] = NoDevice /\ i \notin ignoredDevices


\* C36: after the socket of the outbound handler has been replaced by a new
\* open socket, a close of the old socket does not take the event handlers off
\* the current socket: whenever the handler is connected, its listeners are on
\* the current socket, so that a response frame arriving there reaches the
\* pending-request table.
C36_CurrentSocketKeepsHandlers ==
  obHandler.exists /\ obConnected(ObState)
  => obSockets[obHandler.socket].listeners > 0

C38_TimerFitsSocket ==
  /\ timeout.kind = "reconnect" => readyState(State) = "CLOSED"
  /\ timeout.kind \in { "ping", "pong" } => readyState(State) = "OPEN"

====
